---- MODULE Spec2Model ----
(***************************************************************************)
(* Verification model of the OCR resilience layer of kindle-exporter.      *)
(*                                                                         *)
(* Part 1: LocalVisionProvider (src/src/ocr/localVision.ts), the retry /   *)
(* circuit-breaker wrapper around the Ollama backend.  Several callers     *)
(* share one provider instance (ocrBatch maps a batch through this.ocr     *)
(* with Promise.all; performBatchOcr runs provider.ocr under p-map), so a  *)
(* call is a sequence of atomic steps separated by the awaits of ocr():    *)
(* initialize, readFile, ollama.chat and sleep.  JavaScript runs the code  *)
(* between two awaits without interruption, hence one action per segment.  *)
(*                                                                         *)
(* Not modelled: stats.totalDuration / averageDuration and the stats.errors*)
(* map and circuitBreaker.lastFailureTime (written, never read by the      *)
(* provider), and a readFile that rejects although existsSync just found   *)
(* the file: an attempt is one await, readFile followed by ollama.chat.    *)
(* The local lastError is only read by the final throw; the error caught   *)
(* by a step is kept in last.error for the state that follows the step.    *)
(* The clock is read at the granularity TickStep; the backoff delays       *)
(* (1-4 s) lie below it, so a sleep may end within one clock reading.      *)
(*                                                                         *)
(* Part 2: performBatchOcr (src/src/ocr/batchOcr.ts), the batch            *)
(* orchestrator, under BatchSpec.  The provider is seen from outside: a    *)
(* provider.ocr call resolves or rejects, and carries the number of        *)
(* backend invocations the wrapper of part 1 makes for such a call.        *)
(* p-map (7.x, a dependency, package.json) is modelled by its contract:    *)
(* at most `concurrency` mappers are active, a finished mapper starts the  *)
(* next input, the first mapper rejection rejects the whole map and stops  *)
(* new mappers from starting (stopOnError).                                *)
(*                                                                         *)
(* Part 3: orchestrateBookExport and the run state                         *)
(* (src/unnamed/part_012, src/unnamed/part_010), under JobSpec.            *)
(*                                                                         *)
(* Part 4: TesseractProvider.ocrWithPositions and parseHocr                *)
(* (src/src/ocr/tesseract.ts), under HocrSpec.  An hOCR document is the    *)
(* sequence of its ocrx_word spans; a span is its title attribute (the     *)
(* number tokens after "bbox", the x_wconf value) and its content, a       *)
(* sequence of characters.  The two regular expressions are modelled by    *)
(* what they accept.                                                       *)
(*                                                                         *)
(* Part 5: SearchablePdfExporter (src/src/exporters/searchablePdf.ts),     *)
(* under PdfSpec: the text layer addSearchablePage gives a chunk, and      *)
(* calculateFontSize in exact rational arithmetic (the rounding of the     *)
(* floating-point operations is not modelled).                             *)
(*                                                                         *)
(* Part 6: OpenAIProvider.ocr (src/src/ocr/openai.ts), under OpenAiSpec:   *)
(* the retry loop of the hosted-model backend.  A response is its content  *)
(* and the refusal patterns that match it, an error its message and the    *)
(* words isFatalError finds in it; temperatures are in tenths.             *)
(***************************************************************************)
EXTENDS Integers, Sequences, FiniteSets, TLC

(***************************************************************************)
(* Configuration fixed by the constructor (localVision.ts:149-159).        *)
(***************************************************************************)
maxRetries == 3
retryDelay == 1000
circuitBreakerThreshold == 5
circuitBreakerTimeout == 60000

(***************************************************************************)
(* Bounds of the model.                                                    *)
(***************************************************************************)
NumCallers == 2
MaxCalls == 7
MaxNow == 60000
MaxSuccesses == 1
MaxRejected == 1
NumItems == 3
concurrency == 2
NumPages == 3
MaxRuns == 2
MaxEntries == 2
MaxChunks == 2
MaxOpenAiRetries == 3

Callers == 1..NumCallers
\* the clock advances by one cooldown at a time: a circuit opened before
\* the step has now >= nextAttemptTime after it
TickStep == circuitBreakerTimeout

\* errors a backend invocation (ollama.chat) can reject with: a transient
\* one (timeout, connection reset) or a fatal one (unauthorized, quota)
BackendErrors == {"transient", "fatal"}

RECURSIVE Pow2(_)
Pow2(n) == IF n = 0 THEN 1 ELSE 2 * Pow2(n - 1)

VARIABLES
  circuitBreaker,   \* this.circuitBreaker: state, failureCount, nextAttemptTime
  stats,            \* this.stats: the five request counters
  isInitialized,    \* this.isInitialized
  now,              \* Date.now()
  pc,               \* per caller: the await its ocr call is suspended at
  imageExists,      \* per caller: existsSync(imagePath) for the call's argument
  attempt,          \* per caller: loop variable of the retry loop
  retryCount,       \* per caller: local retryCount
  slept,            \* per caller: the delay passed to the last sleep() of the call
  invocations,      \* per caller: ollama.chat invocations of the call so far
  obs,              \* per caller: the circuit as the call found it on entry
  last,             \* the step just taken: the error it caught, the call it ended
  hist,             \* counters observing the calls made on the instance
  \* performBatchOcr
  batchPc,          \* where performBatchOcr is: idle, running, returned, rejected
  pathExists,       \* input: existsSync(path) for every input path
  options,          \* input: the BatchOcrOptions of the call
  validPaths,       \* const validPaths
  results,          \* const results
  failures,         \* const failures
  completed,        \* let completed
  nextIndex,        \* p-map: position in validPaths of the next input to start
  itemPc,           \* per input: where its mapper is
  itemAttempt,      \* per input: loop variable of the mapper's retry loop
  providerCalls,    \* per input in work: provider.ocr calls made with it
  itemInvocations,  \* per input in work: backend invocations made for it
  invoked,          \* the paths provider.ocr has been called with
  batchLast,        \* the batch step just taken: the input whose mapper it ended
  progress,         \* the onProgress invocations so far, in order
  batchOutcome,     \* the stats of the BatchOcrResult returned, or the rejection
  \* orchestrateBookExport
  jobPc,            \* the await orchestrateBookExport is suspended at
  runs,             \* runs of the tool started so far
  jobOptions,       \* input: the OrchestratorOptions of the run
  disk,             \* the run-state.json of the book, or NoFile
  metadata,         \* let metadata: TRUE once it is not null
  existingState,    \* const existingState
  runState,         \* let runState
  failedState,      \* const runState of the catch block
  readerPage,       \* the page the reader shows; 0 = no session
  pageNumber,       \* captureAndOcrPages: let pageNumber
  currentPage,      \* captureAndOcrPages: const currentPage
  pages,            \* captureAndOcrPages: const pages, as page numbers
  chunkTexts,            \* captureAndOcrPages: the text of every chunk of pages
  \* TesseractProvider.ocrWithPositions
  hocrPc,           \* the await ocrWithPositions is suspended at
  hocrXml,          \* input: the hOCR document tesseract writes
  wordPositions,    \* const wordPositions
  hocrText,         \* the text returned
  \* SearchablePdfExporter.createPdf
  pdfPc,            \* where createPdf is
  chunk,            \* input: the chunk of the for loop
  dimensions,       \* input: sizeOf(imageBuffer) for the chunk's screenshot
  pdfPage,          \* the content the page of the chunk was given, in order
  pageCount,        \* pages added to the document so far
  \* OpenAIProvider.ocr
  openAiPc,         \* where the call is: the await it is suspended at
  openAiConfig,     \* input: const temperature and const maxRetries of the call
  openAiAttempt,    \* loop variable attempt
  openAiTemps,      \* the temperatures performOcr was called with, in order
  openAiSlept,      \* the delays of the backoff waits, in order
  openAiLastError,  \* let lastError
  openAiResult      \* the text returned

wrapperVars == <<circuitBreaker, stats, isInitialized, now, pc, imageExists,
                 attempt, retryCount, slept, invocations, obs,
                 last, hist>>
batchVars == <<batchPc, pathExists, options, validPaths, results, failures,
               completed, nextIndex, itemPc, itemAttempt, providerCalls,
               itemInvocations, invoked, batchLast, progress, batchOutcome>>
jobVars == <<jobPc, runs, jobOptions, disk, metadata, existingState, runState,
             failedState, readerPage, pageNumber, currentPage, pages,
             chunkTexts>>
hocrVars == <<hocrPc, hocrXml, wordPositions, hocrText>>
pdfVars == <<pdfPc, chunk, dimensions, pdfPage, pageCount>>
openAiVars == <<openAiPc, openAiConfig, openAiAttempt, openAiTemps,
                openAiSlept, openAiLastError, openAiResult>>
vars == <<wrapperVars, batchVars, jobVars, hocrVars, pdfVars, openAiVars>>

(***************************************************************************)
(* The private helpers of LocalVisionProvider, as functions of the fields  *)
(* they read and write.                                                    *)
(***************************************************************************)

\* variant of checkCircuitBreaker that lets a call through while the
\* cooldown is still running
CheckCircuitBreaker_NoFastFail(cb, t) ==
  IF cb.state = "OPEN" /\ t >= cb.nextAttemptTime
  THEN [thrown |-> FALSE,
        cb |-> [cb EXCEPT !.state = "HALF_OPEN", !.failureCount = 0]]
  ELSE [thrown |-> FALSE, cb |-> cb]

\* checkCircuitBreaker (localVision.ts:241-260): thrown = the circuit-open error
CheckCircuitBreaker(cb, t) ==
  IF cb.state = "OPEN"
  THEN IF t >= cb.nextAttemptTime
       THEN [thrown |-> FALSE,
             cb |-> [cb EXCEPT !.state = "HALF_OPEN", !.failureCount = 0]]
       ELSE [thrown |-> TRUE, cb |-> cb]
  ELSE [thrown |-> FALSE, cb |-> cb]

\* recordSuccess (localVision.ts:265-276), counters
RecordSuccessStats(st) ==
  [st EXCEPT !.successfulRequests = @ + 1]

\* variant of recordSuccess that leaves a HALF_OPEN circuit HALF_OPEN
RecordSuccess_NeverCloses(cb) == [cb EXCEPT !.failureCount = 0]

\* variant of recordSuccess that closes the circuit on every success
RecordSuccess_AlwaysClose(cb) ==
  [cb EXCEPT !.state = "CLOSED", !.failureCount = 0]

\* variant of recordSuccess that closes the circuit but keeps the count
RecordSuccess_NoReset(cb) ==
  [cb EXCEPT !.state = IF @ = "HALF_OPEN" THEN "CLOSED" ELSE @]

\* recordSuccess (localVision.ts:265-276), circuit
RecordSuccess(cb) ==
  [cb EXCEPT !.state = IF @ = "HALF_OPEN" THEN "CLOSED" ELSE @,
             !.failureCount = 0]

\* variant of recordFailure that does not count the failed request
RecordFailureStats_Uncounted(st) == st

\* recordFailure (localVision.ts:281-301), counters
RecordFailureStats(st) ==
  [st EXCEPT !.failedRequests = @ + 1]

\* variant of recordFailure in which an increment is lost: a failure is not
\* counted when one is counted already
RecordFailure_LostUpdate(cb, t) ==
  LET counted == [cb EXCEPT !.failureCount = IF @ = 0 THEN 1 ELSE @]
  IN  IF counted.failureCount >= circuitBreakerThreshold
      THEN [counted EXCEPT !.state = "OPEN",
                           !.nextAttemptTime = t + circuitBreakerTimeout]
      ELSE counted

\* variant of recordFailure that opens one failure late (> for >=)
RecordFailure_Late(cb, t) ==
  LET counted == [cb EXCEPT !.failureCount = @ + 1]
  IN  IF counted.failureCount > circuitBreakerThreshold
      THEN [counted EXCEPT !.state = "OPEN",
                           !.nextAttemptTime = t + circuitBreakerTimeout]
      ELSE counted

\* recordFailure (localVision.ts:281-301), circuit
RecordFailure(cb, t) ==
  LET counted == [cb EXCEPT !.failureCount = @ + 1]
  IN  IF counted.failureCount >= circuitBreakerThreshold
      THEN [counted EXCEPT !.state = "OPEN",
                           !.nextAttemptTime = t + circuitBreakerTimeout]
      ELSE counted

\* the delay of the sleep after failed attempt a (localVision.ts:383-387)
Backoff(a) == retryDelay * Pow2(a)

\* variant of the loop bound that allows one attempt more
IsLastAttempt_OneMore(a) == a = maxRetries + 1

\* the loop bound of the retry loop (localVision.ts:337, 378)
IsLastAttempt(a) == a = maxRetries

\* variant that counts every successful call as retried
TrackRetriedRequest_Always(st, rc) ==
  [st EXCEPT !.retriedRequests = @ + 1]

\* "Track retries" on the success path (localVision.ts:366-369)
TrackRetriedRequest(st, rc) ==
  IF rc > 0 THEN [st EXCEPT !.retriedRequests = @ + 1] ELSE st

\* the counter bumped in the catch block (localVision.ts:374-375)
TrackFailedAttempt(st) ==
  [st EXCEPT !.totalRetries = @ + 1]

\* variant of the existsSync test that lets every path through
ImageMissing_Ignored(exists) == FALSE

\* the test that throws "Image file not found" (localVision.ts:318-324)
ImageMissing(exists) == ~exists

\* variant that forgets to count the request
CountRequest_Forgotten(st) == st

\* "Increment total requests" (localVision.ts:329-330)
CountRequest(st) ==
  [st EXCEPT !.totalRequests = @ + 1]

(***************************************************************************)
(* performBatchOcr (batchOcr.ts:48-145): inputs, options and the errors a  *)
(* provider.ocr call can reject with.                                      *)
(***************************************************************************)
Items == 1..NumItems

\* imagePaths: the input list; a path is identified by its position
imagePaths == [i \in Items |-> i]

\* maxRetries = 3, the default of the option (batchOcr.ts:58)
batchMaxRetries == 3

\* the options a caller may pass; concurrency and maxRetries are fixed above
BatchOptions ==
  [continueOnError : BOOLEAN, retryFailures : BOOLEAN,
   maxRetries : {0, batchMaxRetries}]

\* noRetryPatterns (batchOcr.ts:154-161)
noRetryPatterns == {"file not found", "invalid image", "api key", "unauthorized",
                    "quota exceeded", "model not found"}

\* what LocalVisionProvider.ocr rejects with, seen by the caller: message is
\* the error's message, mentions the no-retry pattern it contains (or "none"),
\* invocations the backend invocations the call made before rejecting (all
\* maxRetries + 1 attempts when the retry loop is exhausted, whatever the
\* cause; none when the circuit is open: localVision.ts:327, 337-381)
ProviderErrors ==
  { [message |-> "timeout", mentions |-> "none",
     invocations |-> maxRetries + 1],
    [message |-> "unauthorized", mentions |-> "unauthorized",
     invocations |-> maxRetries + 1],
    [message |-> "circuit breaker is open", mentions |-> "none",
     invocations |-> 0] }

\* backend invocations of a provider.ocr call that resolves: the first
\* attempt succeeds, or only the last one does (localVision.ts:337-371)
ResolvedInvocations == {1, maxRetries + 1}

\* variant of shouldRetry that finds every error worth a retry
ShouldRetry_Always(e) == TRUE

\* shouldRetry (batchOcr.ts:150-164)
ShouldRetry(e) == ~(\E pattern \in noRetryPatterns : e.mentions = pattern)

\* variant of the filter that keeps every path
FilterExisting_KeepAll(paths, ex) == paths

\* the filter of batchOcr.ts:68-74: the paths that are kept ...
FilterExisting(paths, ex) == SelectSeq(paths, LAMBDA path : ex[path])

\* variant of the filter that records nothing for a missing path
NotFoundFailures_None(paths, ex) == <<>>

\* ... and the failures pushed for the others
NotFoundFailures(paths, ex) ==
  LET missing == SelectSeq(paths, LAMBDA path : ~ex[path])
  IN  [k \in 1..Len(missing) |-> [path |-> missing[k], error |-> "File not found"]]

\* the attempt after which the mapper's loop ends: no sleep follows it
\* (batchOcr.ts:84, 98)
IsLastBatchAttempt(a) == ~(a < options.maxRetries - 1)

\* variant of p-map's start that ignores the concurrency option
PMapInitial_Unbounded(n) == n

\* p-map: the number of mappers started when the map begins
PMapInitial(n) == IF n < concurrency THEN n ELSE concurrency

\* variant of p-map that goes on starting mappers after a rejection
PMapContinues_Always(state) == TRUE

\* p-map: a finished mapper starts the next one unless the map has been
\* rejected (stopOnError, the default)
PMapContinues(state) == state = "running"

\* the stats of the BatchOcrResult (batchOcr.ts:131-144)
BatchStats(paths, res, fails) ==
  [total |-> Len(paths), successful |-> Len(res), failed |-> Len(fails)]

NoOutcome == [kind |-> "none"]
NoBatchLast == [path |-> 0, result |-> "none", providerCalls |-> 0,
                invocations |-> 0, error |-> "none"]

\* the state of a mapper p-map has just called: in its first provider.ocr
\* call, or, when the loop for (attempt = 0; attempt < maxRetries ...) has no
\* iteration, past it (batchOcr.ts:79-86, 58)
Started == IF options.maxRetries > 0 THEN "ocr" ELSE "begun"
StartedCalls == IF options.maxRetries > 0 THEN 1 ELSE 0

\* the locals of performBatchOcr before its first statement
BatchFresh ==
  /\ batchPc = "idle"
  /\ validPaths = <<>>
  /\ results = <<>>
  /\ failures = <<>>
  /\ completed = 0
  /\ nextIndex = 1
  /\ itemPc = [i \in Items |-> "waiting"]
  /\ itemAttempt = [i \in Items |-> 0]
  /\ providerCalls = [i \in Items |-> 0]
  /\ itemInvocations = [i \in Items |-> 0]
  /\ invoked = {}
  /\ batchLast = NoBatchLast
  /\ progress = <<>>
  /\ batchOutcome = NoOutcome

\* performBatchOcr is not called
BatchIdle ==
  /\ BatchFresh
  /\ pathExists = [i \in Items |-> TRUE]
  /\ options = [continueOnError |-> TRUE, retryFailures |-> TRUE,
                maxRetries |-> batchMaxRetries]

(***************************************************************************)
(* The run state (src/unnamed/part_010) and the inputs of                  *)
(* orchestrateBookExport (src/unnamed/part_012).                           *)
(***************************************************************************)
BookPages == 1..NumPages

\* no run-state.json on disk; a null RunState
NoFile == [status |-> "none", lastPage |-> 0, exportedPages |-> 0,
           totalPages |-> 0]

\* createRunState (part_010:14-32)
CreateRunState ==
  [status |-> "in-progress", lastPage |-> 0, exportedPages |-> 0,
   totalPages |-> 0]

\* variant of updateRunState that records as lastPage the page after the
\* pages captured
UpdateRunState_Ahead(state, n) ==
  [state EXCEPT !.totalPages = n, !.exportedPages = n, !.lastPage = n + 1]

\* updateRunState (part_010:37-45) with the updates of part_012:161-164
UpdateRunState(state, n) ==
  [state EXCEPT !.totalPages = n, !.exportedPages = n]

\* completeRunState (part_010:50-56)
CompleteRunState(state) == [state EXCEPT !.status = "completed"]

\* failRunState (part_010:61-68)
FailRunState(state) == [state EXCEPT !.status = "failed"]

\* the run-state.json a run may find: none, or the checkpoint of a run that
\* was interrupted after page lastPage
Checkpoints ==
  { [status |-> "in-progress", lastPage |-> n, exportedPages |-> n,
     totalPages |-> 0] : n \in BookPages }

\* options.bookTitle given or not; options.maxPages is the length of the book
JobOptions == [bookTitle : BOOLEAN, dryRun : BOOLEAN]

\* the text of a chunk: a string, or null
Text(string) == [null |-> FALSE, value |-> string]
NullText == [null |-> TRUE, value |-> ""]

\* variant in which the text of a chunk starts as null
InitialText_Null == NullText

\* let text = '' (part_012:304)
InitialText == Text("")

\* what ocrProvider.ocr resolves with, a string: nothing or the text of the
\* page (part_012:307; livetext.ts:91, tesseract.ts:131, localVision.ts:360-371,
\* openai.ts:85-87)
RecognizedTexts == {Text(""), Text("Hello World")}
maxPages == NumPages

\* the locals of orchestrateBookExport before a run
JobFresh ==
  /\ jobPc = "idle"
  /\ runs = 0
  /\ jobOptions = [bookTitle |-> TRUE, dryRun |-> FALSE]
  /\ metadata = FALSE
  /\ existingState = NoFile
  /\ runState = NoFile
  /\ failedState = NoFile
  /\ readerPage = 0
  /\ pageNumber = 0
  /\ currentPage = 0
  /\ pages = <<>>
  /\ chunkTexts = <<>>

\* the tool is not run
JobIdle ==
  /\ JobFresh
  /\ disk = NoFile

(***************************************************************************)
(* parseHocr and ocrWithPositions (tesseract.ts:196-319).                  *)
(***************************************************************************)
\* contents of a span: two words, a word with blanks around it, a blank, and
\* a word wrapped in markup (<strong>, <em>), which starts with "<"
Hello == <<"H", "e", "l", "l", "o">>
World == <<"W", "o", "r", "l", "d">>
SpanTexts == {Hello, World, <<" ", "o", "k", " ">>, <<" ">>, <<"<">>}

\* title attributes: the number tokens that follow "bbox" (a negative one
\* stands for a token that is not \d+) and the x_wconf value, -1 when absent;
\* the first one is the empty title
NoConf == -1
SpanTitles ==
  {[bbox |-> <<>>, wconf |-> NoConf],
   [bbox |-> <<10, 10, 50, 30>>, wconf |-> 96],
   [bbox |-> <<55, 10, 90, 30>>, wconf |-> NoConf],
   [bbox |-> <<10, 10, 10, 30>>, wconf |-> 90],
   [bbox |-> <<50, 30, 10, 10>>, wconf |-> 90],
   [bbox |-> <<10, 10, 50>>, wconf |-> 96],
   [bbox |-> <<0 - 5, 10, 50, 30>>, wconf |-> 96]}

Spans == [title : SpanTitles, text : SpanTexts]

RECURSIVE SeqsUpTo(_, _)
SeqsUpTo(S, n) ==
  IF n = 0 THEN {<<>>}
  ELSE LET shorter == SeqsUpTo(S, n - 1)
       IN  shorter \cup {Append(q, x) : q \in shorter, x \in S}

HocrDocuments == SeqsUpTo(Spans, MaxEntries)

\* String.prototype.trim, the blank being the only white space of the model
RECURSIVE TrimStart(_)
TrimStart(t) ==
  IF t # <<>> /\ Head(t) = " " THEN TrimStart(Tail(t)) ELSE t

RECURSIVE TrimEnd(_)
TrimEnd(t) ==
  IF t # <<>> /\ t[Len(t)] = " " THEN TrimEnd(SubSeq(t, 1, Len(t) - 1)) ELSE t

Trim(t) == TrimEnd(TrimStart(t))

\* wordRegex (tesseract.ts:282-283) matches a span whose content is [^<]*
WordRegexMatches(span) == \A k \in 1..Len(span.text) : span.text[k] # "<"

\* /bbox (\d+) (\d+) (\d+) (\d+)/.exec(titleAttr) with its four groups
\* (tesseract.ts:293, 297-303)
BboxMatch(title) ==
  /\ Len(title.bbox) >= 4
  /\ \A k \in 1..4 : title.bbox[k] >= 0

\* the object pushed for a span (tesseract.ts:304-313)
WordPosition(span) ==
  [text |-> Trim(span.text),
   bbox |-> [x0 |-> span.title.bbox[1], y0 |-> span.title.bbox[2],
             x1 |-> span.title.bbox[3], y1 |-> span.title.bbox[4]],
   confidence |-> span.title.wconf]

\* the while loop of parseHocr from span k on (tesseract.ts:285-316)
RECURSIVE ParseHocrFrom(_, _, _)
ParseHocrFrom(xml, k, words) ==
  IF k > Len(xml) THEN words
  ELSE LET span == xml[k]
           titleAttr == span.title
           text == Trim(span.text)
       IN  IF ~WordRegexMatches(span)
           THEN ParseHocrFrom(xml, k + 1, words)
           ELSE IF titleAttr = [bbox |-> <<>>, wconf |-> NoConf] \/ text = <<>>
           THEN ParseHocrFrom(xml, k + 1, words)
           ELSE IF BboxMatch(titleAttr)
           THEN ParseHocrFrom(xml, k + 1, Append(words, WordPosition(span)))
           ELSE ParseHocrFrom(xml, k + 1, words)

\* parseHocr (tesseract.ts:277-319)
ParseHocr(xml) == ParseHocrFrom(xml, 1, <<>>)

\* Array.prototype.join(' ')
RECURSIVE JoinSpace(_)
JoinSpace(texts) ==
  IF texts = <<>> THEN <<>>
  ELSE IF Len(texts) = 1 THEN texts[1]
  ELSE texts[1] \o <<" ">> \o JoinSpace(Tail(texts))

\* wordPositions.map(w => w.text).join(' ') and the trim of the return
\* (tesseract.ts:249, 256)
PlainText(words) ==
  Trim(JoinSpace([k \in 1..Len(words) |-> words[k].text]))

\* ocrWithPositions is not called
HocrIdle ==
  /\ hocrPc = "idle"
  /\ hocrXml = <<>>
  /\ wordPositions = <<>>
  /\ hocrText = <<>>

(***************************************************************************)
(* SearchablePdfExporter (searchablePdf.ts:52-261).                        *)
(***************************************************************************)
\* rationals as pairs <<numerator, denominator>> in lowest terms, the
\* denominator positive
RECURSIVE GCD(_, _)
GCD(a, b) == IF b = 0 THEN a ELSE GCD(b, a % b)

Abs(n) == IF n < 0 THEN 0 - n ELSE n

Rat(n, d) ==
  LET g == GCD(Abs(n), Abs(d))
      sign == IF d < 0 THEN 0 - 1 ELSE 1
  IN  <<sign * (n \div g), sign * (d \div g)>>

RatMul(a, b) == Rat(a[1] * b[1], a[2] * b[2])
RatDiv(a, b) == Rat(a[1] * b[2], a[2] * b[1])
RatLess(a, b) == a[1] * b[2] < b[1] * a[2]
RatMax(a, b) == IF RatLess(a, b) THEN b ELSE a
RatMin(a, b) == IF RatLess(b, a) THEN b ELSE a

\* Math.ceil(n / d) for n >= 0 and d > 0
Ceil(n, d) == (n + d - 1) \div d

\* the constants of calculateFontSize (searchablePdf.ts:235-236, 239, 247)
targetCharsPerLine == 80
margin == 10
charWidthFactor == Rat(1, 2)
lineHeightFactor == Rat(12, 10)
minFontSize == 4
maxFontSize == 14

\* Math.ceil(totalChars / targetCharsPerLine) (searchablePdf.ts:243-244)
EstimatedLines(textLength) == Ceil(textLength, targetCharsPerLine)

\* Math.max(4, Math.min(14, fontSize)) (searchablePdf.ts:257-258)
Clamp(fontSize) ==
  RatMax(Rat(minFontSize, 1), RatMin(Rat(maxFontSize, 1), fontSize))

\* calculateFontSize (searchablePdf.ts:228-261)
CalculateFontSize(textLength, pageWidth, pageHeight) ==
  LET availableWidth == pageWidth - 2 * margin
      fontSize == RatDiv(Rat(availableWidth, 1),
                         RatMul(Rat(targetCharsPerLine, 1), charWidthFactor))
      estimatedLines == EstimatedLines(textLength)
      requiredHeight == RatMul(RatMul(Rat(estimatedLines, 1), fontSize),
                               lineHeightFactor)
      availableHeight == Rat(pageHeight - 2 * margin, 1)
      fitted == IF RatLess(availableHeight, requiredHeight)
                THEN RatMul(fontSize, RatDiv(availableHeight, requiredHeight))
                ELSE fontSize
  IN  Clamp(fitted)

\* the inputs of addSearchablePage: the text of a chunk is its length and
\* whether it is white space only (the empty text is); its wordPositions are
\* absent, empty or the words of a recognized page
TextLengths == {0, 1, 80, 81, 2000, 4000}
ChunkTexts ==
  {t \in [length : TextLengths, blank : BOOLEAN] : t.length = 0 => t.blank}

HelloWord == WordPosition([title |-> [bbox |-> <<10, 10, 50, 30>>, wconf |-> 96],
                           text |-> Hello])
WorldWord == WordPosition([title |-> [bbox |-> <<55, 10, 90, 30>>,
                                      wconf |-> NoConf],
                           text |-> World])

ChunkWords ==
  {[defined |-> FALSE, words |-> <<>>],
   [defined |-> TRUE, words |-> <<>>],
   [defined |-> TRUE, words |-> <<HelloWord, WorldWord>>],
   [defined |-> TRUE,
    words |-> <<[HelloWord EXCEPT !.bbox.y1 = 14],
                [WorldWord EXCEPT !.bbox.y1 = 110]>>],
   [defined |-> TRUE,
    words |-> <<[WorldWord EXCEPT !.bbox.y1 = 110], HelloWord,
                [HelloWord EXCEPT !.bbox.y0 = 30, !.bbox.y1 = 10]>>]}

Chunks == [text : ChunkTexts, wordPositions : ChunkWords]

\* sizeOf(imageBuffer): 0 stands for a dimension image-size does not give
PageWidths == {0, 100, 820}
PageHeights == {0, 60, 1000}
Dimensions == [width : PageWidths, height : PageHeights]

\* variant in which every chunk counts as having text
HasText_Always(c) == TRUE

\* chunk.text && chunk.text.trim().length > 0 (searchablePdf.ts:124)
HasText(c) == c.text.length > 0 /\ ~c.text.blank

\* chunk.wordPositions && chunk.wordPositions.length > 0 (searchablePdf.ts:126)
HasWordPositions(c) ==
  c.wordPositions.defined /\ Len(c.wordPositions.words) > 0

NoFontSize == <<0, 1>>

\* variant that does not clamp the font size of a word
WordFontSize_Unclamped(word) == Rat(85 * (word.bbox.y1 - word.bbox.y0), 100)

\* Math.max(6, Math.min(72, wordHeight * 0.85)) (searchablePdf.ts:200-206)
WordFontSize(word) ==
  LET wordHeight == word.bbox.y1 - word.bbox.y0
  IN  RatMax(Rat(6, 1), RatMin(Rat(72, 1), Rat(85 * wordHeight, 100)))

\* doc.fontSize and doc.text of one word (searchablePdf.ts:196-218)
PlaceWord(word) ==
  [text |-> word.text, x |-> word.bbox.x0, y |-> word.bbox.y0,
   width |-> word.bbox.x1 - word.bbox.x0,
   height |-> word.bbox.y1 - word.bbox.y0,
   fontSize |-> WordFontSize(word), lineBreak |-> FALSE]

\* the for loop of addPositionedTextLayer (searchablePdf.ts:185-222)
AddPositionedTextLayer(words) ==
  [k \in 1..Len(words) |-> PlaceWord(words[k])]

\* the text layer of a page (searchablePdf.ts:123-138): addPositionedTextLayer
\* places every word, addInvisibleTextLayer the text at calculateFontSize
TextLayer(c, dims) ==
  IF HasText(c)
  THEN IF HasWordPositions(c)
       THEN <<[op |-> "positioned", words |-> Len(c.wordPositions.words),
               placed |-> AddPositionedTextLayer(c.wordPositions.words),
               fontSize |-> NoFontSize]>>
       ELSE <<[op |-> "block", words |-> 0, placed |-> <<>>,
               fontSize |-> CalculateFontSize(c.text.length, dims.width,
                                              dims.height)]>>
  ELSE <<>>

\* doc.image of the screenshot (searchablePdf.ts:117-121)
ImageLayer ==
  [op |-> "image", words |-> 0, placed |-> <<>>, fontSize |-> NoFontSize]

NoChunk == [text |-> [length |-> 0, blank |-> TRUE],
            wordPositions |-> [defined |-> FALSE, words |-> <<>>]]
NoDimensions == [width |-> 0, height |-> 0]

\* createPdf is not called
PdfIdle ==
  /\ pdfPc = "idle"
  /\ chunk = NoChunk
  /\ dimensions = NoDimensions
  /\ pdfPage = <<>>
  /\ pageCount = 0

(***************************************************************************)
(* OpenAIProvider (openai.ts:60-176).                                      *)
(***************************************************************************)
\* what performOcr resolves with: the trimmed content of the completion, ''
\* when there is none (openai.ts:147), with the patterns of isRefusal that
\* match it; the last one is a refusal no pattern matches
Responses ==
  {[content |-> "Chapter One", matches |-> {}],
   [content |-> "", matches |-> {}],
   [content |-> "I cannot process this image", matches |-> {"cannot.*process.*image"}],
   [content |-> "No text found", matches |-> {"no.*text.*found"}],
   [content |-> "Sorry, I can't help with that", matches |-> {}]}

\* isRefusal (openai.ts:153-163)
IsRefusal(text) == text.matches # {}

\* what performOcr rejects with: the message and the words of isFatalError
\* found in it
ApiErrors ==
  {[message |-> "Request timed out", mentions |-> {}],
   [message |-> "Incorrect API key provided", mentions |-> {"api key"}],
   [message |-> "You exceeded your current quota", mentions |-> {"quota"}],
   [message |-> "Invalid image data", mentions |-> {"invalid"}]}

\* variant of isFatalError for which no error is fatal
IsFatalError_Never(error) == FALSE

\* isFatalError (openai.ts:168-176)
IsFatalError(error) ==
  error.mentions \cap {"api key", "unauthorized", "invalid", "quota"} # {}

NoError == [message |-> "none", mentions |-> {}]
RefusedError ==
  [message |-> "OpenAI refused to process the image", mentions |-> {}]
NotFoundError == [message |-> "Image file not found", mentions |-> {}]
NoResponse == [content |-> "none", matches |-> {}]

\* variant that keeps the temperature of the first attempt
CurrentTemp_Constant(temperature, a) == temperature

\* const currentTemp = temperature + attempt * 0.2, in tenths (openai.ts:80)
CurrentTemp(temperature, a) == temperature + a * 2

\* the temperature and maxRetries of a call (openai.ts:72-73): in tenths, and
\* any number of attempts from 0 on
OpenAiConfigs ==
  [temperature : {0, 5, 10}, maxRetries : 0..MaxOpenAiRetries]

\* ocr is not called
OpenAiIdle ==
  /\ openAiPc = "idle"
  /\ openAiConfig = [temperature |-> 0, maxRetries |-> 3]
  /\ openAiAttempt = 0
  /\ openAiTemps = <<>>
  /\ openAiSlept = <<>>
  /\ openAiLastError = NoError
  /\ openAiResult = NoResponse

(***************************************************************************)
(* Initial state: the fields as the constructor leaves them                *)
(* (localVision.ts:136, 166-184); no call has been made.                   *)
(***************************************************************************)
NoObs == [openAtEntry |-> FALSE, halfOpenAdmit |-> FALSE]
NoLast == [result |-> "none", error |-> "none", invocations |-> 0,
           imageExists |-> TRUE, openAtEntry |-> FALSE, halfOpenAdmit |-> FALSE]

WrapperInit ==
  /\ circuitBreaker = [state |-> "CLOSED", failureCount |-> 0,
                       nextAttemptTime |-> 0]
  /\ stats = [totalRequests |-> 0, successfulRequests |-> 0,
              failedRequests |-> 0, retriedRequests |-> 0, totalRetries |-> 0]
  /\ isInitialized = FALSE
  /\ now = 0
  /\ pc = [c \in Callers |-> "idle"]
  /\ imageExists = [c \in Callers |-> TRUE]
  /\ attempt = [c \in Callers |-> 0]
  /\ retryCount = [c \in Callers |-> 0]
  /\ slept = [c \in Callers |-> 0]
  /\ invocations = [c \in Callers |-> 0]
  /\ obs = [c \in Callers |-> NoObs]
  /\ last = NoLast
  /\ hist = [calls |-> 0, admitted |-> 0, rejected |-> 0, failedRun |-> 0,
             failedAttempts |-> 0, retriedOk |-> 0, multiAttempt |-> 0]

Init ==
  /\ WrapperInit
  /\ BatchIdle
  /\ JobIdle
  /\ HocrIdle
  /\ PdfIdle
  /\ OpenAiIdle

\* the call of caller c returns or throws (err = the lastError it wraps): how
\* it ended is kept in last, its locals are gone
Return(c, how, err, exists, ob) ==
  /\ last' = [result |-> how, error |-> err, invocations |-> invocations[c],
              imageExists |-> exists, openAtEntry |-> ob.openAtEntry,
              halfOpenAdmit |-> ob.halfOpenAdmit]
  /\ pc' = [pc EXCEPT ![c] = "idle"]
  /\ imageExists' = [imageExists EXCEPT ![c] = TRUE]
  /\ attempt' = [attempt EXCEPT ![c] = 0]
  /\ retryCount' = [retryCount EXCEPT ![c] = 0]
  /\ slept' = [slept EXCEPT ![c] = 0]
  /\ invocations' = [invocations EXCEPT ![c] = 0]
  /\ obs' = [obs EXCEPT ![c] = NoObs]

(***************************************************************************)
(* ocr(), from the existsSync test to the first await of the retry loop    *)
(* (localVision.ts:318-358).  Runs without interruption.                   *)
(***************************************************************************)
Enter(c, exists, h) ==
  LET chk == CheckCircuitBreaker(circuitBreaker, now)
      seenOpen == circuitBreaker.state = "OPEN" /\ now < circuitBreaker.nextAttemptTime
  IN
  /\ now' = now
  /\ IF ImageMissing(exists)
     THEN \* throw "Image file not found"
          /\ h.rejected < MaxRejected
          /\ Return(c, "not-found", "none", exists, [NoObs EXCEPT !.openAtEntry = seenOpen])
          /\ hist' = [h EXCEPT !.rejected = @ + 1]
          /\ UNCHANGED <<circuitBreaker, stats>>
     ELSE IF chk.thrown
     THEN \* checkCircuitBreaker throws
          /\ circuitBreaker' = chk.cb
          /\ Return(c, "circuit-open", "none", exists, [NoObs EXCEPT !.openAtEntry = seenOpen])
          /\ hist' = h
          /\ UNCHANGED stats
     ELSE \* admitted: count the request and start attempt 0
          /\ circuitBreaker' = chk.cb
          /\ stats' = CountRequest(stats)
          /\ imageExists' = [imageExists EXCEPT ![c] = exists]
          /\ invocations' = [invocations EXCEPT ![c] = 1]
          /\ pc' = [pc EXCEPT ![c] = "chat"]
          /\ obs' = [obs EXCEPT ![c] =
                       [openAtEntry |-> seenOpen,
                        halfOpenAdmit |-> (chk.cb.state = "HALF_OPEN")]]
          /\ hist' = [h EXCEPT !.admitted = @ + 1]
          /\ last' = NoLast
          /\ UNCHANGED <<attempt, retryCount, slept>>

\* a caller invokes ocr(imagePath) (localVision.ts:313-316); callers are
\* interchangeable, a new call takes the lowest free slot
OcrCall(c, exists) ==
  /\ UNCHANGED <<batchVars, jobVars, hocrVars, pdfVars, openAiVars>>
  /\ pc[c] = "idle"
  /\ \A d \in Callers : d < c => pc[d] # "idle"
  /\ hist.calls < MaxCalls
  /\ IF isInitialized
     THEN /\ Enter(c, exists, [hist EXCEPT !.calls = @ + 1])
          /\ UNCHANGED isInitialized
     ELSE /\ pc' = [pc EXCEPT ![c] = "initializing"]
          /\ imageExists' = [imageExists EXCEPT ![c] = exists]
          /\ hist' = [hist EXCEPT !.calls = @ + 1]
          /\ last' = NoLast
          /\ UNCHANGED <<circuitBreaker, stats, isInitialized, now, attempt,
                         retryCount, slept, invocations, obs>>

\* initialize() settles (localVision.ts:207-236, 314-316): ok = Ollama is
\* running and lists the model; otherwise ProviderNotAvailableError
InitializeDone(c, ok) ==
  /\ UNCHANGED <<batchVars, jobVars, hocrVars, pdfVars, openAiVars>>
  /\ pc[c] = "initializing"
  /\ IF ok
     THEN /\ isInitialized' = TRUE
          /\ Enter(c, imageExists[c], hist)
     ELSE /\ hist.rejected < MaxRejected
          /\ Return(c, "unavailable", "none", imageExists[c], NoObs)
          /\ hist' = [hist EXCEPT !.rejected = @ + 1]
          /\ UNCHANGED <<circuitBreaker, stats, isInitialized, now>>

\* readFile and ollama.chat resolve (localVision.ts:339-371)
ChatOk(c) ==
  /\ UNCHANGED <<batchVars, jobVars, hocrVars, pdfVars, openAiVars>>
  /\ pc[c] = "chat"
  /\ stats.successfulRequests < MaxSuccesses
  /\ stats' = TrackRetriedRequest(RecordSuccessStats(stats), retryCount[c])
  /\ circuitBreaker' = RecordSuccess(circuitBreaker)
  /\ Return(c, "text", "none", imageExists[c], obs[c])
  /\ hist' = [hist EXCEPT !.failedRun = 0,
                          !.retriedOk = IF invocations[c] > 1 THEN @ + 1 ELSE @,
                          !.multiAttempt = IF invocations[c] > 1 THEN @ + 1 ELSE @]
  /\ UNCHANGED <<isInitialized, now>>

\* ollama.chat rejects with an error of kind err: the catch block of the
\* retry loop (localVision.ts:372-388)
ChatFail(c, err) ==
  /\ UNCHANGED <<batchVars, jobVars, hocrVars, pdfVars, openAiVars>>
  /\ pc[c] = "chat"
  /\ IF IsLastAttempt(attempt[c])
     THEN \* recordFailure, then throw OcrProcessingError
          /\ stats' = RecordFailureStats(TrackFailedAttempt(stats))
          /\ circuitBreaker' = RecordFailure(circuitBreaker, now)
          /\ Return(c, "failed", err, imageExists[c], obs[c])
          /\ hist' = [hist EXCEPT !.failedRun = @ + 1,
                                  !.failedAttempts = @ + 1,
                                  !.multiAttempt =
                                     IF invocations[c] > 1 THEN @ + 1 ELSE @]
     ELSE \* sleep(backoffDelay)
          /\ stats' = TrackFailedAttempt(stats)
          /\ retryCount' = [retryCount EXCEPT ![c] = @ + 1]
          /\ slept' = [slept EXCEPT ![c] = Backoff(attempt[c])]
          /\ pc' = [pc EXCEPT ![c] = "sleeping"]
          /\ hist' = [hist EXCEPT !.failedAttempts = @ + 1]
          /\ last' = [NoLast EXCEPT !.error = err]
          /\ UNCHANGED <<circuitBreaker, attempt, imageExists, invocations, obs>>
  /\ UNCHANGED <<isInitialized, now>>

\* the sleep timer fires and the loop starts the next attempt: readFile,
\* then ollama.chat (localVision.ts:306-308, 337-358, 387)
Wake(c) ==
  /\ UNCHANGED <<batchVars, jobVars, hocrVars, pdfVars, openAiVars>>
  /\ pc[c] = "sleeping"
  /\ attempt' = [attempt EXCEPT ![c] = @ + 1]
  /\ invocations' = [invocations EXCEPT ![c] = @ + 1]
  /\ pc' = [pc EXCEPT ![c] = "chat"]
  /\ last' = NoLast
  /\ UNCHANGED <<circuitBreaker, stats, isInitialized, now, imageExists,
                 retryCount, slept, obs, hist>>

\* time passes
Tick ==
  /\ UNCHANGED <<batchVars, jobVars, hocrVars, pdfVars, openAiVars>>
  /\ now + TickStep <= MaxNow
  /\ now' = now + TickStep
  /\ last' = NoLast
  /\ UNCHANGED <<circuitBreaker, stats, isInitialized, pc, imageExists, attempt,
                 retryCount, slept, invocations, obs, hist>>

Next ==
  \/ \E c \in Callers, exists \in BOOLEAN : OcrCall(c, exists)
  \/ \E c \in Callers, ok \in BOOLEAN : InitializeDone(c, ok)
  \/ \E c \in Callers : ChatOk(c)
  \/ \E c \in Callers, err \in BackendErrors : ChatFail(c, err)
  \/ \E c \in Callers : Wake(c)
  \/ Tick

Spec == Init /\ [][Next]_vars

(***************************************************************************)
(* The same wrapper for behaviours without end, under RecoverySpec: calls  *)
(* are made for ever and the clock runs for ever.  The counters of stats   *)
(* and hist, which no branch of ocr() reads, are left as they are, and     *)
(* once the clock has reached MaxNow its origin moves with it, so that     *)
(* nextAttemptTime - now is kept.  Fairness: the clock advances, every     *)
(* timer fires, and every initialize() and every backend invocation        *)
(* settles.                                                                *)
(***************************************************************************)
\* ocr(), from the existsSync test to the first await of the retry loop
\* (localVision.ts:318-358)
RecoveryEnter(c, exists) ==
  LET chk == CheckCircuitBreaker(circuitBreaker, now)
      seenOpen == circuitBreaker.state = "OPEN" /\ now < circuitBreaker.nextAttemptTime
  IN
  /\ UNCHANGED <<stats, hist, now>>
  /\ IF ImageMissing(exists)
     THEN /\ Return(c, "not-found", "none", exists, [NoObs EXCEPT !.openAtEntry = seenOpen])
          /\ UNCHANGED circuitBreaker
     ELSE IF chk.thrown
     THEN /\ circuitBreaker' = chk.cb
          /\ Return(c, "circuit-open", "none", exists, [NoObs EXCEPT !.openAtEntry = seenOpen])
     ELSE /\ circuitBreaker' = chk.cb
          /\ imageExists' = [imageExists EXCEPT ![c] = exists]
          /\ invocations' = [invocations EXCEPT ![c] = 1]
          /\ pc' = [pc EXCEPT ![c] = "chat"]
          /\ obs' = [obs EXCEPT ![c] =
                       [openAtEntry |-> seenOpen,
                        halfOpenAdmit |-> (chk.cb.state = "HALF_OPEN")]]
          /\ last' = NoLast
          /\ UNCHANGED <<attempt, retryCount, slept>>

\* a caller invokes ocr(imagePath) (localVision.ts:313-316)
RecoveryOcrCall(c, exists) ==
  /\ UNCHANGED <<batchVars, jobVars, hocrVars, pdfVars, openAiVars>>
  /\ pc[c] = "idle"
  /\ \A d \in Callers : d < c => pc[d] # "idle"
  /\ IF isInitialized
     THEN /\ RecoveryEnter(c, exists)
          /\ UNCHANGED isInitialized
     ELSE /\ pc' = [pc EXCEPT ![c] = "initializing"]
          /\ imageExists' = [imageExists EXCEPT ![c] = exists]
          /\ last' = NoLast
          /\ UNCHANGED <<circuitBreaker, stats, isInitialized, now, attempt,
                         retryCount, slept, invocations, obs, hist>>

\* initialize() settles (localVision.ts:207-236, 314-316)
RecoveryInitializeDone(c, ok) ==
  /\ UNCHANGED <<batchVars, jobVars, hocrVars, pdfVars, openAiVars>>
  /\ pc[c] = "initializing"
  /\ IF ok
     THEN /\ isInitialized' = TRUE
          /\ RecoveryEnter(c, imageExists[c])
     ELSE /\ Return(c, "unavailable", "none", imageExists[c], NoObs)
          /\ UNCHANGED <<circuitBreaker, stats, isInitialized, now, hist>>

\* readFile and ollama.chat resolve (localVision.ts:339-371)
RecoveryChatOk(c) ==
  /\ UNCHANGED <<batchVars, jobVars, hocrVars, pdfVars, openAiVars>>
  /\ pc[c] = "chat"
  /\ circuitBreaker' = RecordSuccess(circuitBreaker)
  /\ Return(c, "text", "none", imageExists[c], obs[c])
  /\ UNCHANGED <<stats, hist, isInitialized, now>>

\* ollama.chat rejects: the catch block (localVision.ts:372-388)
RecoveryChatFail(c, err) ==
  /\ UNCHANGED <<batchVars, jobVars, hocrVars, pdfVars, openAiVars>>
  /\ pc[c] = "chat"
  /\ IF IsLastAttempt(attempt[c])
     THEN /\ circuitBreaker' = RecordFailure(circuitBreaker, now)
          /\ Return(c, "failed", err, imageExists[c], obs[c])
     ELSE /\ retryCount' = [retryCount EXCEPT ![c] = @ + 1]
          /\ slept' = [slept EXCEPT ![c] = Backoff(attempt[c])]
          /\ pc' = [pc EXCEPT ![c] = "sleeping"]
          /\ last' = [NoLast EXCEPT !.error = err]
          /\ UNCHANGED <<circuitBreaker, attempt, imageExists, invocations, obs>>
  /\ UNCHANGED <<stats, hist, isInitialized, now>>

\* time passes; past MaxNow the origin of the clock moves instead
RecoveryTick ==
  /\ UNCHANGED <<batchVars, jobVars, hocrVars, pdfVars, openAiVars>>
  /\ IF now + TickStep <= MaxNow
     THEN now' = now + TickStep /\ UNCHANGED circuitBreaker
     ELSE /\ now' = now
          /\ circuitBreaker' =
               [circuitBreaker EXCEPT !.nextAttemptTime =
                  IF @ > TickStep THEN @ - TickStep ELSE 0]
  /\ last' = NoLast
  /\ UNCHANGED <<stats, isInitialized, pc, imageExists, attempt,
                 retryCount, slept, invocations, obs, hist>>

RecoveryNext ==
  \/ \E c \in Callers, exists \in BOOLEAN : RecoveryOcrCall(c, exists)
  \/ \E c \in Callers, ok \in BOOLEAN : RecoveryInitializeDone(c, ok)
  \/ \E c \in Callers : RecoveryChatOk(c)
  \/ \E c \in Callers, err \in BackendErrors : RecoveryChatFail(c, err)
  \/ \E c \in Callers : Wake(c)
  \/ RecoveryTick

RecoveryFairness ==
  /\ WF_vars(RecoveryTick)
  /\ \A c \in Callers :
       /\ WF_vars(Wake(c))
       /\ WF_vars(\E ok \in BOOLEAN : RecoveryInitializeDone(c, ok))
       /\ WF_vars(RecoveryChatOk(c)
                    \/ \E err \in BackendErrors : RecoveryChatFail(c, err))

RecoverySpec == Init /\ [][RecoveryNext]_vars /\ RecoveryFairness

TypeOK ==
  /\ circuitBreaker.state \in {"CLOSED", "OPEN", "HALF_OPEN"}
  /\ circuitBreaker.failureCount \in Nat
  /\ now \in Nat
  /\ last.result \in {"none", "text", "failed", "circuit-open", "not-found",
                      "unavailable"}
  /\ last.error \in BackendErrors \cup {"none"}
  /\ \A c \in Callers :
       /\ pc[c] \in {"idle", "initializing", "chat", "sleeping"}
       /\ attempt[c] \in 0..maxRetries

(***************************************************************************)
(* Properties of the resilience wrapper.  last describes the step that led *)
(* to the current state, so an invariant over last speaks about every call *)
(* at the moment it ends.                                                  *)
(***************************************************************************)
InFlight(c) == pc[c] \in {"chat", "sleeping"}
Quiet == \A c \in Callers : pc[c] = "idle"

\* C1: a call that reaches the circuit-breaker check while the circuit is
\* OPEN and the clock is before nextAttemptTime ends in that same step (it is
\* never in flight), having made zero backend invocations; for an existing
\* image it ends with the circuit-open error (a missing image is reported
\* first, as image-not-found).
C1_FastFail ==
  /\ \A c \in Callers : ~obs[c].openAtEntry
  /\ last.openAtEntry =>
       /\ last.invocations = 0
       /\ last.result = IF last.imageExists THEN "circuit-open" ELSE "not-found"

C1_Witness ==
  /\ last.openAtEntry
  /\ last.imageExists
  /\ last.result = "circuit-open"
  /\ circuitBreaker.state = "OPEN"
  /\ now < circuitBreaker.nextAttemptTime

\* C2: counted from CLOSED with failureCount 0, the circuit is still CLOSED
\* after fewer than threshold consecutive failed calls, it leaves CLOSED (to
\* OPEN, with the cooldown running) exactly at the threshold-th one, and a
\* call entering before the cooldown elapses makes no backend invocation.
C2_OpensAtThreshold ==
  /\ [](circuitBreaker.state = "CLOSED" =>
          /\ circuitBreaker.failureCount = hist.failedRun
          /\ hist.failedRun < circuitBreakerThreshold)
  /\ [][circuitBreaker.state = "CLOSED" /\ circuitBreaker'.state # "CLOSED" =>
          /\ circuitBreaker'.state = "OPEN"
          /\ last'.result = "failed"
          /\ hist'.failedRun = circuitBreakerThreshold
          /\ now' < circuitBreaker'.nextAttemptTime]_vars
  /\ [](last.openAtEntry /\ last.imageExists =>
          last.invocations = 0 /\ last.result = "circuit-open")

C2_Witness ==
  /\ circuitBreaker.state = "OPEN"
  /\ hist.failedRun = circuitBreakerThreshold
  /\ stats.failedRequests = circuitBreakerThreshold
  /\ hist.calls = circuitBreakerThreshold + 1
  /\ last.result = "circuit-open"
  /\ last.invocations = 0

\* C3 (as claimed): while the circuit is HALF_OPEN at most one call admitted
\* in HALF_OPEN is in flight, so no second call reaches the backend beside
\* the probe.
C3_SingleProbe ==
  circuitBreaker.state = "HALF_OPEN" =>
    Cardinality({c \in Callers : InFlight(c) /\ obs[c].halfOpenAdmit}) <= 1

\* C4: every change of the circuit state is CLOSED->OPEN, OPEN->HALF_OPEN,
\* HALF_OPEN->CLOSED or HALF_OPEN->OPEN, and CLOSED->OPEN happens only with
\* failureCount at the threshold.
C4_Transitions ==
  [][circuitBreaker'.state # circuitBreaker.state =>
       /\ <<circuitBreaker.state, circuitBreaker'.state>> \in
            {<<"CLOSED", "OPEN">>, <<"OPEN", "HALF_OPEN">>,
             <<"HALF_OPEN", "CLOSED">>, <<"HALF_OPEN", "OPEN">>}
       /\ (circuitBreaker.state = "CLOSED" =>
             circuitBreaker'.failureCount >= circuitBreakerThreshold)]_vars

C4_Witness ==
  /\ circuitBreaker.state = "CLOSED"
  /\ stats.failedRequests >= circuitBreakerThreshold
  /\ stats.successfulRequests >= 1
  /\ \E c \in Callers : InFlight(c)

\* C5 (as claimed): when a call admitted in HALF_OPEN fails while the circuit
\* is HALF_OPEN, the circuit is OPEN afterwards with nextAttemptTime = failure
\* time + cooldown.
C5_FailedProbeReopens ==
  [][circuitBreaker.state = "HALF_OPEN" /\ last'.result = "failed"
       /\ last'.halfOpenAdmit
       => /\ circuitBreaker'.state = "OPEN"
          /\ circuitBreaker'.nextAttemptTime = now + circuitBreakerTimeout]_vars

\* C6: the step in which a call succeeds leaves failureCount = 0, turns a
\* HALF_OPEN circuit into CLOSED and never leaves the circuit HALF_OPEN.
C6_SuccessResets ==
  [][last'.result = "text" =>
       /\ circuitBreaker'.failureCount = 0
       /\ circuitBreaker'.state # "HALF_OPEN"
       /\ (circuitBreaker.state = "HALF_OPEN" => circuitBreaker'.state = "CLOSED")]_vars

C6_Witness ==
  /\ last.result = "text"
  /\ last.halfOpenAdmit
  /\ circuitBreaker.state = "CLOSED"
  /\ circuitBreaker.failureCount = 0
  /\ stats.failedRequests >= circuitBreakerThreshold

\* C7: one ocr call makes at most maxRetries + 1 backend invocations, sleeps
\* retryDelay * 2^attempt after failed attempt number attempt, and every step
\* of the call either ends it (with the text, or with the failure once the
\* last attempt has failed) or moves it forward in the bounded retry loop.
C7_BoundedRetry ==
  /\ [](\A c \in Callers :
          /\ invocations[c] <= maxRetries + 1
          /\ attempt[c] <= maxRetries
          /\ (pc[c] = "sleeping" =>
                attempt[c] < maxRetries /\ slept[c] = retryDelay * Pow2(attempt[c]))
          /\ (pc[c] = "chat" /\ attempt[c] > 0 =>
                slept[c] = retryDelay * Pow2(attempt[c] - 1))
          /\ (pc[c] = "chat" => invocations[c] = attempt[c] + 1))
  /\ [](/\ last.invocations <= maxRetries + 1
        /\ (last.result = "failed" => last.invocations = maxRetries + 1)
        /\ (last.result = "text" => last.invocations >= 1))
  /\ [][\A c \in Callers :
          InFlight(c) /\ <<pc[c], attempt[c]>> # <<pc'[c], attempt'[c]>> =>
            \/ pc'[c] = "idle" /\ last'.result \in {"text", "failed"}
            \/ /\ pc[c] = "chat" /\ pc'[c] = "sleeping" /\ attempt'[c] = attempt[c]
            \/ /\ pc[c] = "sleeping" /\ pc'[c] = "chat"
               /\ attempt'[c] = attempt[c] + 1]_vars

C7_Witness ==
  /\ last.result = "failed"
  /\ last.invocations = maxRetries + 1
  /\ stats.totalRetries >= maxRetries + 1

\* C8 (as claimed): a backend invocation that fails with a fatal error ends
\* the call in that step, with the failure propagated; no retry is scheduled.
C8_FatalNotRetried ==
  last.error = "fatal" => last.result = "failed" /\ last.invocations = 1

\* C9 (as claimed): every call that got as far as the circuit-breaker check
\* has incremented totalRequests, the calls that failed fast because the
\* circuit is OPEN included: once the synchronous head of every call made so
\* far has run, totalRequests is the number of those calls.
C9_EveryCallCounted ==
  (\A c \in Callers : pc[c] # "initializing") =>
    stats.totalRequests = hist.calls - hist.rejected

\* C9 (amended): totalRequests counts exactly the admitted calls, those that
\* passed the image test and the circuit-breaker check; a call that failed
\* fast or was rejected earlier is not counted.
C9_AdmittedCallsCounted ==
  /\ stats.totalRequests = hist.admitted
  /\ hist.admitted <= hist.calls
  /\ (last.result \in {"circuit-open", "not-found", "unavailable"} =>
        stats.totalRequests < hist.calls)

C9_Witness ==
  /\ last.result = "circuit-open"
  /\ last.openAtEntry
  /\ stats.totalRequests = hist.admitted
  /\ hist.admitted < hist.calls
  /\ hist.rejected = 0

\* C10 (as claimed): with no call in flight, retriedRequests and totalRetries
\* both equal the number of finished calls that needed more than one attempt.
C10_OncePerRetriedCall ==
  Quiet =>
    /\ stats.retriedRequests = hist.multiAttempt
    /\ stats.totalRetries = hist.multiAttempt

\* C10 (amended): retriedRequests counts the calls that succeeded after at
\* least one failed attempt, and totalRetries counts the failed attempts, the
\* last attempt of a failing call included.
C10_RetryCounters ==
  /\ stats.retriedRequests = hist.retriedOk
  /\ stats.totalRetries = hist.failedAttempts
  /\ stats.retriedRequests <= stats.successfulRequests
  /\ stats.totalRetries >= (maxRetries + 1) * stats.failedRequests

C10_Witness ==
  /\ Quiet
  /\ stats.retriedRequests >= 1
  /\ stats.failedRequests >= 1
  /\ stats.totalRetries > hist.multiAttempt
  /\ stats.retriedRequests < hist.multiAttempt

\* C11: with several calls in flight on one instance, every call that fails
\* adds exactly one to failureCount whatever the interleaving (no increment
\* is lost), failureCount changes otherwise only by being reset to 0, in
\* CLOSED it equals the number of calls failed since the last success, and
\* the circuit is OPEN whenever failureCount has reached the threshold.
C11_NoLostIncrement ==
  /\ [][last'.result = "failed" =>
          circuitBreaker'.failureCount = circuitBreaker.failureCount + 1]_vars
  /\ [][circuitBreaker'.failureCount # circuitBreaker.failureCount =>
          last'.result = "failed" \/ circuitBreaker'.failureCount = 0]_vars
  /\ [](circuitBreaker.state = "CLOSED" =>
          circuitBreaker.failureCount = hist.failedRun)
  /\ [](circuitBreaker.failureCount >= circuitBreakerThreshold =>
          circuitBreaker.state = "OPEN")

\* a call fails and opens the circuit at the threshold while the backend
\* invocation of another call is under way
C11_Witness ==
  /\ last.result = "failed"
  /\ circuitBreaker.state = "OPEN"
  /\ circuitBreaker.failureCount = circuitBreakerThreshold
  /\ hist.failedRun = circuitBreakerThreshold
  /\ \E c \in Callers : pc[c] = "chat" /\ attempt[c] > 0

\* a backend invocation (readFile, then ollama.chat) of the call of c starts
\* in this step: the first attempt of an admitted call, or a retry attempt
InvocationStarts(c) == invocations'[c] > invocations[c]

\* the circuit is OPEN and its cooldown has not elapsed
CoolingDown(cb, t) == cb.state = "OPEN" /\ t < cb.nextAttemptTime

\* C36: no backend invocation starts, first attempt or retry attempt, while
\* the circuit is OPEN and the clock is before nextAttemptTime.
C36_NoInvocationWhileOpen ==
  [][\A c \in Callers :
       InvocationStarts(c) => ~CoolingDown(circuitBreaker', now')]_vars

\* the calls past the circuit-breaker check that have not ended yet
AdmittedInFlight == {c \in Callers : InFlight(c)}

\* C38: totalRequests = successfulRequests + failedRequests + the number of
\* admitted calls in flight (so the first two sum to totalRequests when no
\* call is in flight), and no counter of the stats ever decreases.
C38_StatsConservation ==
  /\ [](stats.totalRequests =
          stats.successfulRequests + stats.failedRequests
            + Cardinality(AdmittedInFlight))
  /\ [][\A f \in DOMAIN stats : stats'[f] >= stats[f]]_vars

\* C38 witness: three calls were admitted; one succeeded, one failed, one is
\* still in flight.
C38_Witness ==
  /\ stats.totalRequests = 3
  /\ stats.successfulRequests = 1
  /\ stats.failedRequests = 1
  /\ Cardinality(AdmittedInFlight) = 1

\* a call for an image path that does not exist ends in this step
MissingImageCallEnds == last'.result # "none" /\ ~last'.imageExists

\* the call that ends in this step was waiting for initialize()
EndsAfterInitialize ==
  \E c \in Callers : pc[c] = "initializing" /\ pc'[c] = "idle"

\* the step makes no backend invocation and leaves the counters and the
\* circuit as they were
NoEffectOnWrapper ==
  /\ last'.invocations = 0
  /\ stats' = stats
  /\ circuitBreaker' = circuitBreaker

\* C39 (as stated): every ocr call for an image path that does not exist
\* fails with image-not-found, makes no backend invocation and leaves the
\* counters and the circuit unchanged.
C39_MissingImageAlwaysNotFound ==
  [][MissingImageCallEnds =>
       last'.result = "not-found" /\ NoEffectOnWrapper]_vars

\* C39 (amended): an ocr call for an image path that does not exist makes
\* no backend invocation and leaves the counters and the circuit unchanged,
\* in every circuit state; it fails with image-not-found, also when the
\* circuit is OPEN, unless the call had to run initialize() and that failed,
\* in which case it fails with provider-not-available.
C39_MissingImageFrame ==
  [][MissingImageCallEnds =>
       /\ NoEffectOnWrapper
       /\ last'.result \in {"not-found", "unavailable"}
       /\ (last'.result = "unavailable" => EndsAfterInitialize)
       /\ (~EndsAfterInitialize => last'.result = "not-found")]_vars

\* a backend invocation fails in this step (the catch block runs)
BackendFails ==
  \E c \in Callers :
    pc[c] = "chat" /\ (pc'[c] = "sleeping" \/ last'.result = "failed")

\* a call for an existing image reaches the circuit-breaker check in this
\* step: it is admitted or fails fast
CallMade ==
  \E c \in Callers :
    /\ pc[c] \in {"idle", "initializing"}
    /\ pc'[c] = "chat" \/ (pc'[c] = "idle" /\ last'.result = "circuit-open")

\* C37: if from some point on no backend invocation fails, and calls for
\* existing images keep being made, the circuit is eventually CLOSED with
\* failureCount 0 for good.
C37_Recovery ==
  (<>[][~BackendFails]_vars /\ []<><<CallMade>>_vars)
    => <>[](circuitBreaker.state = "CLOSED" /\ circuitBreaker.failureCount = 0)

\* C37 witness: the call that found the circuit OPEN after the cooldown and
\* was admitted as HALF_OPEN has just succeeded, and the circuit is CLOSED.
C37_Witness ==
  /\ last.result = "text"
  /\ last.halfOpenAdmit
  /\ circuitBreaker.state = "CLOSED"
  /\ circuitBreaker.failureCount = 0

\* C39 witness: a call for a missing image has just failed with
\* image-not-found while the circuit is OPEN and cooling down.
C39_Witness ==
  /\ last.result = "not-found"
  /\ ~last.imageExists
  /\ last.openAtEntry
  /\ CoolingDown(circuitBreaker, now)
  /\ stats.failedRequests = circuitBreakerThreshold

(***************************************************************************)
(* performBatchOcr (batchOcr.ts:48-145).  One action per segment of the    *)
(* function and of its mapper between two awaits.                          *)
(***************************************************************************)
BatchInit ==
  /\ WrapperInit
  /\ JobIdle
  /\ HocrIdle
  /\ PdfIdle
  /\ OpenAiIdle
  /\ BatchFresh
  /\ pathExists \in [Items -> BOOLEAN]
  /\ options \in BatchOptions

\* variant that calls onProgress before completed++
ReportProgress_Early(i) ==
  /\ completed' = completed + 1
  /\ progress' = Append(progress, [completed |-> completed,
                                   total |-> Len(validPaths), path |-> i])

\* completed++ and the onProgress call (batchOcr.ts:122-126)
ReportProgress(i) ==
  /\ completed' = completed + 1
  /\ progress' = Append(progress, [completed |-> completed + 1,
                                   total |-> Len(validPaths), path |-> i])

\* the mapper of input i settles in state how (its locals are gone, what it
\* did is kept in batchLast) after a provider.ocr call that made k backend
\* invocations; p-map then starts the mapper of the next input, unless the
\* map has been rejected or no input is left.  A mapper runs up to its first
\* await, the provider.ocr call of attempt 0 (batchOcr.ts:79-86).
MapperSettles(i, how, k, mayStart, error) ==
  LET starts == mayStart /\ nextIndex <= Len(validPaths)
      j == validPaths[nextIndex]
  IN  /\ batchLast' = [path |-> i, result |-> how,
                       providerCalls |-> providerCalls[i],
                       invocations |-> itemInvocations[i] + k,
                       error |-> error]
      /\ itemPc' = IF starts
                   THEN [itemPc EXCEPT ![i] = how, ![j] = Started]
                   ELSE [itemPc EXCEPT ![i] = how]
      /\ providerCalls' =
           IF starts
           THEN [providerCalls EXCEPT ![i] = 0, ![j] = StartedCalls]
           ELSE [providerCalls EXCEPT ![i] = 0]
      /\ invoked' = IF starts /\ Started = "ocr"
                    THEN invoked \cup {j} ELSE invoked
      /\ itemAttempt' = [itemAttempt EXCEPT ![i] = 0]
      /\ itemInvocations' = [itemInvocations EXCEPT ![i] = 0]
      /\ nextIndex' = IF starts THEN nextIndex + 1 ELSE nextIndex

\* performBatchOcr is called: the filter, then pMap starts the first mappers
\* (batchOcr.ts:53-86)
PerformBatchOcr ==
  /\ UNCHANGED <<wrapperVars, jobVars, hocrVars, pdfVars, openAiVars>>
  /\ batchPc = "idle"
  /\ LET valid == FilterExisting(imagePaths, pathExists)
         n == PMapInitial(Len(valid))
         first == {valid[k] : k \in 1..n}
     IN  /\ validPaths' = valid
         /\ failures' = NotFoundFailures(imagePaths, pathExists)
         /\ itemPc' = [i \in Items |->
                         IF i \in first THEN Started ELSE "waiting"]
         /\ providerCalls' = [i \in Items |->
                                IF i \in first THEN StartedCalls ELSE 0]
         /\ invoked' = IF Started = "ocr" THEN first ELSE {}
         /\ nextIndex' = n + 1
  /\ batchPc' = "running"
  /\ batchLast' = NoBatchLast
  /\ UNCHANGED <<pathExists, options, results, completed, itemAttempt,
                 itemInvocations, progress, batchOutcome>>

\* provider.ocr(imagePath) resolves after k backend invocations
\* (batchOcr.ts:86-88, 122-126)
OcrResolves(i, k) ==
  /\ UNCHANGED <<wrapperVars, jobVars, hocrVars, pdfVars, openAiVars>>
  /\ itemPc[i] = "ocr"
  /\ results' = Append(results, i)
  /\ ReportProgress(i)
  /\ MapperSettles(i, "done", k, PMapContinues(batchPc), "none")
  /\ UNCHANGED <<batchPc, pathExists, options, validPaths, failures,
                 batchOutcome>>

\* "Record failure if all retries exhausted" (batchOcr.ts:108-120): the
\* failure is pushed with the message of lastError, after a last provider.ocr
\* call that made k backend invocations; without continueOnError the mapper
\* throws an error that wraps thrown, and p-map rejects on the first rejection
MapperFails(i, message, thrown, k, error) ==
  /\ failures' = Append(failures, [path |-> i, error |-> message])
  /\ IF ~options.continueOnError
     THEN /\ MapperSettles(i, "threw", k, FALSE, error)
          /\ batchPc' = "rejected"
          /\ batchOutcome' =
               IF batchPc = "running"
               THEN [kind |-> "rejected", path |-> i, error |-> thrown]
               ELSE batchOutcome
          /\ UNCHANGED <<completed, progress>>
     ELSE /\ ReportProgress(i)
          /\ MapperSettles(i, "failed", k, PMapContinues(batchPc), error)
          /\ UNCHANGED <<batchPc, batchOutcome>>

\* the mapper of an input runs with maxRetries = 0: the loop has no
\* iteration, lastError is undefined and success false (batchOcr.ts:79-84,
\* 108-126)
LoopSkipped(i) ==
  /\ UNCHANGED <<wrapperVars, jobVars, hocrVars, pdfVars, openAiVars>>
  /\ itemPc[i] = "begun"
  /\ MapperFails(i, "Unknown error", "OCR failed", 0, "none")
  /\ UNCHANGED <<pathExists, options, validPaths, results>>

\* provider.ocr(imagePath) rejects with e: the catch block, and what follows
\* the loop when the loop ends (batchOcr.ts:89-126)
OcrRejects(i, e) ==
  /\ UNCHANGED <<wrapperVars, jobVars, hocrVars, pdfVars, openAiVars>>
  /\ itemPc[i] = "ocr"
  /\ IF \/ ~options.retryFailures
        \/ ~ShouldRetry(e)
        \/ IsLastBatchAttempt(itemAttempt[i])
     THEN MapperFails(i, e.message, e.message, e.invocations, e.message)
     ELSE \* "Wait before retry"
          /\ itemPc' = [itemPc EXCEPT ![i] = "backoff"]
          /\ itemInvocations' = [itemInvocations EXCEPT ![i] = @ + e.invocations]
          /\ batchLast' = [NoBatchLast EXCEPT !.path = i, !.result = "backoff",
                                              !.error = e.message]
          /\ UNCHANGED <<failures, completed, progress, providerCalls, invoked,
                         itemAttempt, nextIndex, batchPc, batchOutcome>>
  /\ UNCHANGED <<pathExists, options, validPaths, results>>

\* the timer of the mapper's backoff fires: attempt++ and the next
\* provider.ocr call (batchOcr.ts:84-86, 99-101)
TimerFires(i) ==
  /\ UNCHANGED <<wrapperVars, jobVars, hocrVars, pdfVars, openAiVars>>
  /\ itemPc[i] = "backoff"
  /\ itemAttempt' = [itemAttempt EXCEPT ![i] = @ + 1]
  /\ itemPc' = [itemPc EXCEPT ![i] = "ocr"]
  /\ providerCalls' = [providerCalls EXCEPT ![i] = @ + 1]
  /\ batchLast' = NoBatchLast
  /\ UNCHANGED <<batchPc, pathExists, options, validPaths, results, failures,
                 completed, nextIndex, itemInvocations, invoked, progress,
                 batchOutcome>>

\* every mapper has returned: pMap resolves and performBatchOcr returns the
\* BatchOcrResult (batchOcr.ts:131-144)
BatchReturns ==
  /\ UNCHANGED <<wrapperVars, jobVars, hocrVars, pdfVars, openAiVars>>
  /\ batchPc = "running"
  /\ \A k \in 1..Len(validPaths) : itemPc[validPaths[k]] \in {"done", "failed"}
  /\ batchPc' = "returned"
  /\ batchLast' = NoBatchLast
  /\ batchOutcome' = [kind |-> "returned",
                      stats |-> BatchStats(imagePaths, results, failures)]
  /\ UNCHANGED <<pathExists, options, validPaths, results, failures, completed,
                 nextIndex, itemPc, itemAttempt, providerCalls,
                 itemInvocations, invoked, progress>>

BatchNext ==
  \/ PerformBatchOcr
  \/ \E i \in Items, k \in ResolvedInvocations : OcrResolves(i, k)
  \/ \E i \in Items, e \in ProviderErrors : OcrRejects(i, e)
  \/ \E i \in Items : TimerFires(i)
  \/ \E i \in Items : LoopSkipped(i)
  \/ BatchReturns

BatchSpec == BatchInit /\ [][BatchNext]_vars

BatchTypeOK ==
  /\ batchPc \in {"idle", "running", "returned", "rejected"}
  /\ completed \in 0..NumItems
  /\ nextIndex \in 1..(NumItems + 1)
  /\ \A i \in Items :
       /\ itemPc[i] \in {"waiting", "begun", "ocr", "backoff", "done",
                       "failed", "threw"}
       /\ itemAttempt[i] \in 0..(batchMaxRetries - 1)
       /\ providerCalls[i] \in 0..batchMaxRetries


(***************************************************************************)
(* Properties of performBatchOcr.  batchLast describes the step that led   *)
(* to the current state.                                                   *)
(***************************************************************************)
InOcr == {i \in Items : itemPc[i] = "ocr"}
ActiveMappers == {i \in Items : itemPc[i] \in {"begun", "ocr", "backoff"}}
Settled == {i \in Items : itemPc[i] \in {"done", "failed"}}
Missing == {i \in Items : ~pathExists[i]}

\* the number of entries of the list seq that are about path i
InResults(i) == Cardinality({k \in 1..Len(results) : results[k] = i})
InFailures(i) == Cardinality({k \in 1..Len(failures) : failures[k].path = i})
InProgress(i) == Cardinality({k \in 1..Len(progress) : progress[k].path = i})

\* C12: at every instant at most `concurrency` provider.ocr calls are in
\* flight, and at most `concurrency` mappers are active (in a call or in the
\* backoff between two calls), whatever succeeds, fails or is retried.
C12_BoundedConcurrency ==
  /\ Cardinality(InOcr) <= concurrency
  /\ Cardinality(ActiveMappers) <= concurrency

\* the bound is reached again after an input has settled, with a retry made
C12_Witness ==
  /\ Cardinality(InOcr) = concurrency
  /\ Settled # {}
  /\ \E i \in InOcr : itemAttempt[i] > 0
  /\ nextIndex > concurrency + 1

\* C13: once the filter has run, every missing input has exactly one entry in
\* failures, with the not-found reason, so failures has at least K entries
\* (K = number of missing inputs), and provider.ocr is never called with a
\* missing path: its mapper is never started.
C13_MissingNeverInvoked ==
  batchPc # "idle" =>
    /\ \A i \in Missing :
         /\ i \notin invoked
         /\ itemPc[i] = "waiting" /\ providerCalls[i] = 0
         /\ InFailures(i) = 1
         /\ \E k \in 1..Len(failures) :
              failures[k] = [path |-> i, error |-> "File not found"]
    /\ Len(failures) >= Cardinality(Missing)
    /\ (batchLast.path # 0 => batchLast.path \notin Missing)

C13_Witness ==
  /\ batchPc = "returned"
  /\ Cardinality(Missing) >= 1
  /\ Len(failures) > Cardinality(Missing)
  /\ invoked # {}
  /\ invoked \cap Missing = {}

\* C14: when performBatchOcr returns with continueOnError = true, every input
\* path has exactly one entry in results and failures together, and the stats
\* are total = number of inputs, successful = Len(results), failed =
\* Len(failures), successful + failed = total.
C14_Partition ==
  batchPc = "returned" /\ options.continueOnError =>
    /\ \A i \in Items : InResults(i) + InFailures(i) = 1
    /\ batchOutcome.kind = "returned"
    /\ batchOutcome.stats.total = Len(imagePaths)
    /\ batchOutcome.stats.successful = Len(results)
    /\ batchOutcome.stats.failed = Len(failures)
    /\ batchOutcome.stats.successful + batchOutcome.stats.failed
         = batchOutcome.stats.total

\* one input missing, the others succeed, finishing in another order than
\* the input order: stats = {total, successful: total - 1, failed: 1}
C14_Witness ==
  /\ batchPc = "returned"
  /\ options.continueOnError
  /\ Cardinality(Missing) = 1
  /\ batchOutcome.stats = [total |-> NumItems, successful |-> NumItems - 1,
                           failed |-> 1]
  /\ \E k \in 1..(Len(results) - 1) : results[k] > results[k + 1]

\* C15: with continueOnError = false the step in which an input first ends in
\* failure rejects performBatchOcr with that input's error; once rejected it
\* stays rejected (no BatchOcrResult is returned) and no waiting input is
\* started; with continueOnError = true performBatchOcr is never rejected.
C15_AbortOnFirstFailure ==
  /\ [](options.continueOnError => batchPc # "rejected")
  /\ [](batchOutcome.kind = "rejected" <=> batchPc = "rejected")
  /\ [][batchPc = "running" /\ batchLast'.result \in {"failed", "threw"} =>
          IF options.continueOnError
          THEN batchPc' = "running" /\ batchLast'.result = "failed"
          ELSE /\ batchLast'.result = "threw"
               /\ batchPc' = "rejected"
               /\ batchOutcome'.path = batchLast'.path
               /\ failures'[Len(failures')].path = batchOutcome'.path
               /\ (batchLast'.providerCalls > 0 =>
                     failures'[Len(failures')].error = batchOutcome'.error)]_vars
  /\ [][batchPc = "rejected" =>
          /\ batchPc' = "rejected"
          /\ batchOutcome' = batchOutcome
          /\ nextIndex' = nextIndex
          /\ \A i \in Items : itemPc[i] = "waiting" => itemPc'[i] = "waiting"]_vars

\* the batch was rejected, the calls in flight at that time have ended since,
\* and an input was never started
C15_Witness ==
  /\ batchPc = "rejected"
  /\ ~options.continueOnError
  /\ ActiveMappers = {}
  /\ results # <<>>
  /\ \E i \in Items : pathExists[i] /\ itemPc[i] = "waiting"

\* C16 (as claimed): when the mapper of an input ends, at most maxRetries + 1
\* backend invocations have been made for that input: the input went through
\* the wrapper's retry loop once, and nothing retried it on top of that.
C16_WrapperPolicyOnly ==
  batchLast.invocations <= maxRetries + 1

\* C17: with continueOnError = true, onProgress is called exactly once for
\* every input whose mapper has ended and for no other, the k-th call carries
\* completed = k and total = number of existing inputs, so completed never
\* exceeds total, and on return the last call carried completed = total.
C17_ProgressSequence ==
  options.continueOnError =>
    /\ \A k \in 1..Len(progress) :
         /\ progress[k].completed = k
         /\ progress[k].total = Len(validPaths)
         /\ progress[k].completed <= progress[k].total
         /\ progress[k].path \in Settled
    /\ \A i \in Items : InProgress(i) = IF i \in Settled THEN 1 ELSE 0
    /\ completed = Len(progress)
    /\ (batchPc = "returned" /\ validPaths # <<>> =>
          progress[Len(progress)].completed = progress[Len(progress)].total)

\* all inputs are done, one of them after its attempts were exhausted, and
\* they finished in another order than they were started in
C17_Witness ==
  /\ batchPc = "returned"
  /\ options.continueOnError
  /\ Len(progress) = NumItems
  /\ \E i \in Items : itemPc[i] = "failed"
  /\ \E k \in 1..(Len(progress) - 1) : progress[k].path > progress[k + 1].path

\* the messages of the errors shouldRetry refuses to retry
NonRetryableMessages ==
  {e.message : e \in {x \in ProviderErrors : x.mentions \in noRetryPatterns}}

\* a mapper has just ended in failure after a last provider.ocr call rejected
EndedInFailure ==
  batchLast.result \in {"failed", "threw"} /\ batchLast.providerCalls > 0

\* C35 (as stated): whenever provider.ocr fails for an input with an error
\* that is not retryable, or retryFailures is false, that input has had
\* exactly one provider.ocr call when it is recorded in failures.
C35_ExactlyOneCall ==
  (EndedInFailure
     /\ (batchLast.error \in NonRetryableMessages \/ ~options.retryFailures))
    => batchLast.providerCalls = 1

\* C35 (amended): the provider.ocr call that fails with a non-retryable error,
\* or with any error when retryFailures is false, is the input's last: no
\* backoff wait follows it, and the input is recorded in failures with that
\* error's message in the same step; it is the input's only call when
\* retryFailures is false (earlier calls that failed with retryable errors
\* may precede it otherwise).
C35_NonRetryableEndsInput ==
  /\ (batchLast.result = "backoff"
        => /\ options.retryFailures
           /\ batchLast.error \notin NonRetryableMessages)
  /\ (EndedInFailure
        => failures[Len(failures)] =
             [path |-> batchLast.path, error |-> batchLast.error])
  /\ ((EndedInFailure /\ ~options.retryFailures)
        => batchLast.providerCalls = 1)

\* C35 witness: with retryFailures on and three attempts allowed, an input
\* whose first provider.ocr call fails with "unauthorized" has just been
\* recorded in failures.
C35_Witness ==
  /\ batchLast.result = "failed"
  /\ batchLast.error = "unauthorized"
  /\ batchLast.providerCalls = 1
  /\ options.retryFailures
  /\ options.maxRetries = batchMaxRetries

\* C40: every existing input recorded in failures has had at least one
\* provider.ocr call, whatever maxRetries is.
C40_InvokedBeforeFailed ==
  \A k \in 1..Len(failures) :
    pathExists[failures[k].path] => failures[k].path \in invoked

(***************************************************************************)
(* orchestrateBookExport and captureAndOcrPages (src/unnamed/part_012).    *)
(* One action per await, or per run of awaits that touch neither the run   *)
(* state nor the loop variables.  The book has NumPages pages; the reader  *)
(* opens on page 1, which is what the resume navigation of                 *)
(* captureAndOcrPages assumes.                                             *)
(***************************************************************************)
JobInit ==
  /\ WrapperInit
  /\ BatchIdle
  /\ HocrIdle
  /\ PdfIdle
  /\ OpenAiIdle
  /\ JobFresh
  /\ disk \in {NoFile} \cup Checkpoints

\* the tool is started (part_012:89-116)
StartJob(opts) ==
  /\ UNCHANGED <<wrapperVars, batchVars, hocrVars, pdfVars, openAiVars>>
  /\ jobPc \in {"idle", "finished", "killed"}
  /\ runs < MaxRuns
  /\ runs' = runs + 1
  /\ jobOptions' = opts
  /\ jobPc' = "launching"
  /\ metadata' = FALSE
  /\ existingState' = NoFile
  /\ runState' = NoFile
  /\ failedState' = NoFile
  /\ readerPage' = 0
  /\ pageNumber' = 0
  /\ currentPage' = 0
  /\ pages' = <<>>
  /\ chunkTexts' = <<>>
  /\ UNCHANGED disk

\* createBrowserSession resolves (part_012:112-117)
BrowserLaunched ==
  /\ UNCHANGED <<wrapperVars, batchVars, hocrVars, pdfVars, openAiVars>>
  /\ jobPc = "launching"
  /\ jobPc' = "navigating"
  /\ UNCHANGED <<runs, jobOptions, disk, metadata, existingState, runState,
                 failedState, readerPage, pageNumber, currentPage, pages, chunkTexts>>

\* navigateToKindle and extractBookMetadata resolve (part_012:125-137)
Navigated ==
  /\ UNCHANGED <<wrapperVars, batchVars, hocrVars, pdfVars, openAiVars>>
  /\ jobPc = "navigating"
  /\ metadata' = TRUE
  /\ readerPage' = 1
  /\ jobPc' = "loading"
  /\ UNCHANGED <<runs, jobOptions, disk, existingState, runState, failedState,
                 pageNumber, currentPage, pages, chunkTexts>>

\* variant of loadRunState that yields the content of an unreadable file
LoadRunState_Content(file, readable) == file

\* loadRunState: null when the file does not exist, and null again when
\* reading or parsing it throws, the error being caught and logged
\* (part_010:97-114); NoFile stands for null
LoadRunState(file, readable) ==
  IF file = NoFile THEN NoFile
  ELSE IF readable THEN file
  ELSE NoFile

\* canResume (part_010:119-125) and getResumePage (part_010:130-136), of the
\* state loadRunState returned
CanResume(state) ==
  state # NoFile /\ state.status = "in-progress" /\ state.lastPage > 0

GetResumePage(state) == IF state = NoFile THEN 0 ELSE state.lastPage

\* loadRunState resolves, with the file's content or (no file, unreadable
\* file) with null; "Initialize or load run state" and the head of
\* captureAndOcrPages (part_012:140-159, 268-278; part_010:97-114)
RunStateLoaded(readable) ==
  /\ UNCHANGED <<wrapperVars, batchVars, hocrVars, pdfVars, openAiVars>>
  /\ jobPc = "loading"
  /\ LET loaded == LoadRunState(disk, readable)
         state == IF loaded # NoFile THEN loaded ELSE CreateRunState
         startPage == state.lastPage
     IN  /\ existingState' = loaded
         /\ runState' = state
         /\ pageNumber' = IF startPage # 0 THEN startPage ELSE 1
  /\ jobPc' = "seeking"
  /\ UNCHANGED <<runs, jobOptions, disk, metadata, failedState, readerPage,
                 currentPage, pages, chunkTexts>>

\* createOcrProvider resolves and the reader is turned startPage - 1 times
\* (part_012:278-285)
Sought ==
  /\ UNCHANGED <<wrapperVars, batchVars, hocrVars, pdfVars, openAiVars>>
  /\ jobPc = "seeking"
  /\ LET startPage == runState.lastPage
         target == readerPage + (startPage - 1)
     IN  readerPage' = IF startPage > 1
                       THEN (IF target > NumPages THEN NumPages ELSE target)
                       ELSE readerPage
  /\ jobPc' = "capturing"
  /\ UNCHANGED <<runs, jobOptions, disk, metadata, existingState, runState,
                 failedState, pageNumber, currentPage, pages, chunkTexts>>

\* captureAndOcrPages returns (part_012:353, 161-174)
LeaveCapture(captured) ==
  /\ runState' = UpdateRunState(runState, Len(captured))
  /\ jobPc' = "exporting"

\* the chunk of the page is pushed with its text; the loop ends here when
\* maxPages is reached (part_012:310-342)
PushChunk(page, text) ==
  /\ pages' = Append(pages, page)
  /\ chunkTexts' = Append(chunkTexts, text)
  /\ IF Len(pages') >= maxPages
     THEN LeaveCapture(pages')
     ELSE jobPc' = "turning" /\ UNCHANGED runState

\* waitForPageReady, getCurrentPageNumber (the reader's page number, or null
\* when the label is not found) and capturePage resolve; in a dry run the
\* chunk is pushed at once, with the initial text (part_012:290-310)
PageCaptured(labelFound) ==
  /\ UNCHANGED <<wrapperVars, batchVars, hocrVars, pdfVars, openAiVars>>
  /\ jobPc = "capturing"
  /\ currentPage' = IF labelFound THEN readerPage ELSE pageNumber
  /\ IF jobOptions.dryRun
     THEN PushChunk(currentPage', InitialText)
     ELSE /\ jobPc' = "recognizing"
          /\ UNCHANGED <<runState, pages, chunkTexts>>
  /\ UNCHANGED <<runs, jobOptions, disk, metadata, existingState, failedState,
                 readerPage, pageNumber>>

\* ocrProvider.ocr resolves with the text of the page (part_012:305-308)
PageRecognized(text) ==
  /\ UNCHANGED <<wrapperVars, batchVars, hocrVars, pdfVars, openAiVars>>
  /\ jobPc = "recognizing"
  /\ PushChunk(currentPage, text)
  /\ UNCHANGED <<runs, jobOptions, disk, metadata, existingState, failedState,
                 readerPage, pageNumber, currentPage>>

\* isLastPage and navigateNextPage resolve (part_012:336-350); isLastPage
\* answers from the next-page button (part_008:162-181) or always false
\* (part_009:270-284)
PageTurned(buttonChecked, navigated) ==
  /\ UNCHANGED <<wrapperVars, batchVars, hocrVars, pdfVars, openAiVars>>
  /\ jobPc = "turning"
  /\ LET onLastPage == buttonChecked /\ readerPage = NumPages
     IN  IF onLastPage \/ ~navigated
         THEN /\ LeaveCapture(pages)
              /\ UNCHANGED <<readerPage, pageNumber>>
         ELSE /\ readerPage' = IF readerPage < NumPages
                               THEN readerPage + 1 ELSE readerPage
              /\ pageNumber' = pageNumber + 1
              /\ jobPc' = "capturing"
              /\ UNCHANGED runState
  /\ UNCHANGED <<runs, jobOptions, disk, metadata, existingState, failedState,
                 currentPage, pages, chunkTexts>>

\* saveMetadata and exportMultiple resolve; "Mark run as complete"
\* (part_012:174-211)
Exported ==
  /\ UNCHANGED <<wrapperVars, batchVars, hocrVars, pdfVars, openAiVars>>
  /\ jobPc = "exporting"
  /\ runState' = CompleteRunState(runState)
  /\ jobPc' = "completing"
  /\ UNCHANGED <<runs, jobOptions, disk, metadata, existingState, failedState,
                 readerPage, pageNumber, currentPage, pages, chunkTexts>>

\* saveRunState resolves (part_012:211-221; part_010:80-92)
RunStateSaved ==
  /\ UNCHANGED <<wrapperVars, batchVars, hocrVars, pdfVars, openAiVars>>
  /\ jobPc = "completing"
  /\ disk' = runState
  /\ jobPc' = "closing"
  /\ UNCHANGED <<runs, jobOptions, metadata, existingState, runState,
                 failedState, readerPage, pageNumber, currentPage, pages, chunkTexts>>

\* an await of the try block rejects: the catch block (part_012:222-238)
JobFails ==
  /\ UNCHANGED <<wrapperVars, batchVars, hocrVars, pdfVars, openAiVars>>
  /\ jobPc \in {"launching", "navigating", "seeking", "capturing",
                "recognizing", "turning", "exporting", "completing"}
  /\ IF metadata /\ jobOptions.bookTitle
     THEN /\ failedState' = FailRunState(CreateRunState)
          /\ jobPc' = "failing"
     ELSE /\ jobPc' = "closing"
          /\ UNCHANGED failedState
  /\ UNCHANGED <<runs, jobOptions, disk, metadata, existingState, runState,
                 readerPage, pageNumber, currentPage, pages, chunkTexts>>

\* saveRunState of the catch block resolves (part_012:238-248)
FailedStateSaved ==
  /\ UNCHANGED <<wrapperVars, batchVars, hocrVars, pdfVars, openAiVars>>
  /\ jobPc = "failing"
  /\ disk' = failedState
  /\ jobPc' = "closing"
  /\ UNCHANGED <<runs, jobOptions, metadata, existingState, runState,
                 failedState, readerPage, pageNumber, currentPage, pages, chunkTexts>>

\* closeBrowserSession resolves (part_012:249-254)
BrowserClosed ==
  /\ UNCHANGED <<wrapperVars, batchVars, hocrVars, pdfVars, openAiVars>>
  /\ jobPc = "closing"
  /\ jobPc' = "finished"
  /\ readerPage' = 0
  /\ UNCHANGED <<runs, jobOptions, disk, metadata, existingState, runState,
                 failedState, pageNumber, currentPage, pages, chunkTexts>>

\* the process is killed while a run is under way
Killed ==
  /\ UNCHANGED <<wrapperVars, batchVars, hocrVars, pdfVars, openAiVars>>
  /\ jobPc \notin {"idle", "finished", "killed"}
  /\ jobPc' = "killed"
  /\ UNCHANGED <<runs, jobOptions, disk, metadata, existingState, runState,
                 failedState, readerPage, pageNumber, currentPage, pages, chunkTexts>>

JobNext ==
  \/ \E opts \in JobOptions : StartJob(opts)
  \/ BrowserLaunched
  \/ Navigated
  \/ \E readable \in BOOLEAN : RunStateLoaded(readable)
  \/ Sought
  \/ \E labelFound \in BOOLEAN : PageCaptured(labelFound)
  \/ \E text \in RecognizedTexts : PageRecognized(text)
  \/ \E buttonChecked \in BOOLEAN, navigated \in BOOLEAN :
       PageTurned(buttonChecked, navigated)
  \/ Exported
  \/ RunStateSaved
  \/ JobFails
  \/ FailedStateSaved
  \/ BrowserClosed
  \/ Killed

JobSpec == JobInit /\ [][JobNext]_vars

JobTypeOK ==
  /\ jobPc \in {"idle", "launching", "navigating", "loading", "seeking",
                "capturing", "recognizing", "turning", "exporting",
                "completing", "failing", "closing", "finished", "killed"}
  /\ runs \in 0..MaxRuns
  /\ disk.status \in {"none", "in-progress", "completed", "failed"}
  /\ runState.status \in {"none", "in-progress", "completed", "failed"}
  /\ readerPage \in 0..NumPages
  /\ Len(pages) <= maxPages

(***************************************************************************)
(* Properties of the run state.                                            *)
(***************************************************************************)
Terminal == {"completed", "failed"}

\* C18 (as claimed): once the persisted run state of the book is completed or
\* failed no step changes its status, and a run state that is completed or
\* failed in memory is not followed by the saving of another status.
C18_TerminalIsFinal ==
  /\ [][disk.status \in Terminal => disk'.status = disk.status]_vars
  /\ [][runState.status \in Terminal /\ disk'.status # disk.status =>
          disk'.status = runState.status]_vars

\* C19 (as claimed): while the capture loop runs and after it, the persisted
\* run state is the checkpoint of the page recognized last: lastPage is that
\* page and exportedPages the number of pages recognized in this run.
C19_CheckpointAfterEachPage ==
  pages # <<>> /\ jobPc \notin {"idle", "finished"} =>
    /\ disk # NoFile
    /\ disk.lastPage = pages[Len(pages)]
    /\ runState.lastPage = pages[Len(pages)]

\* C20 (as claimed): a run that loaded a run state {in-progress, lastPage = n}
\* with 1 <= n < NumPages processes no page of 1..n, and the first page it
\* processes is n + 1.
C20_ResumeAfterLastPage ==
  /\ existingState.status = "in-progress"
  /\ existingState.lastPage >= 1
  /\ existingState.lastPage < NumPages
  => /\ \A k \in 1..Len(pages) : pages[k] > existingState.lastPage
     /\ (pages # <<>> => pages[1] = existingState.lastPage + 1)

\* C21 (as claimed): no step lowers the lastPage of the persisted run state,
\* and a run that loads the persisted state has in memory a lastPage that is
\* not below the persisted one.
C21_LastPageMonotonic ==
  /\ [][disk'.lastPage >= disk.lastPage]_vars
  /\ [][jobPc = "loading" /\ jobPc' = "seeking" /\ existingState' # NoFile =>
          runState'.lastPage >= disk.lastPage]_vars

\* C22 (as claimed): the run state a run works with after loading is the
\* persisted one when that is in-progress, and otherwise, a completed state
\* included, a fresh state with lastPage 0, the run starting at the first
\* page.
C22_FreshUnlessInProgress ==
  jobPc \in {"seeking", "capturing", "recognizing", "turning"} =>
    IF existingState.status = "in-progress"
    THEN runState = existingState
    ELSE /\ runState = CreateRunState
         /\ (jobPc = "seeking" => pageNumber = 1)

\* C23 (as claimed): the state persisted by the catch block has status failed
\* and keeps the lastPage reached so far: it is not below the lastPage of the
\* run state in memory, nor below the page recognized last in this run.
C23_FailedKeepsLastPage ==
  [][jobPc = "failing" /\ jobPc' = "closing" =>
       /\ disk'.status = "failed"
       /\ disk'.lastPage >= runState.lastPage
       /\ (pages # <<>> => disk'.lastPage >= pages[Len(pages)])]_vars

\* the number of the last page that is fully done as far as a run knows: the
\* lastPage it loaded, or the last page it captured and recognized
LastDone ==
  LET own == IF pages # <<>> THEN pages[Len(pages)] ELSE 0
  IN  IF existingState.lastPage > own THEN existingState.lastPage ELSE own

\* C24: every write of the run state records a lastPage that is at most the
\* number of the last fully completed page, so the page in progress, which is
\* not yet among the recognized pages, is never recorded as done; and a run
\* that loads the persisted state starts at a page not beyond lastPage + 1,
\* so that every page after lastPage is processed again from its capture.
C24_NeverAheadOfProgress ==
  /\ [][disk' # disk => disk'.lastPage <= LastDone]_vars
  /\ [][jobPc = "loading" /\ jobPc' = "seeking" =>
          /\ pageNumber' <= disk.lastPage + 1
          /\ pages' = <<>>]_vars

\* C24 witness: the process was killed while page currentPage was being
\* recognized; the page is not among the recognized ones and the persisted
\* lastPage is below it.
C24_Witness ==
  /\ jobPc = "killed"
  /\ currentPage >= 1
  /\ \A k \in 1..Len(pages) : pages[k] # currentPage
  /\ disk # NoFile
  /\ disk.lastPage < currentPage

\* C25: a persisted state that cannot be read or parsed loads as "no prior
\* state": canResume is false and the resume page 0, loading never takes the
\* run to its catch block, and a run whose load yielded nothing works with a
\* fresh state from the first page.
C25_UnreadableIsNoState ==
  /\ [](/\ LoadRunState(disk, FALSE) = NoFile
        /\ ~CanResume(LoadRunState(disk, FALSE))
        /\ GetResumePage(LoadRunState(disk, FALSE)) = 0)
  /\ [][jobPc = "loading" => jobPc' \in {"loading", "seeking", "killed"}]_vars
  /\ [][jobPc = "loading" /\ jobPc' = "seeking" /\ existingState' = NoFile =>
          runState' = CreateRunState /\ pageNumber' = 1]_vars

\* C25 witness: a checkpoint is on disk, its load yielded nothing, and the run
\* goes on with a fresh state.
C25_Witness ==
  /\ jobPc = "seeking"
  /\ CanResume(disk)
  /\ existingState = NoFile
  /\ runState = CreateRunState

\* C26 (as claimed): a recognition that fails does not end the run: the step
\* that follows the recognition of a page is the turning of the page (or the
\* process being killed), never the catch block.
C26_RecognitionFailureContinues ==
  [][jobPc = "recognizing" => jobPc' \in {"recognizing", "turning", "killed"}]_vars

(***************************************************************************)
(* TesseractProvider.ocrWithPositions (tesseract.ts:197-272), under        *)
(* HocrSpec: the document tesseract writes is drawn by the initial state.  *)
(***************************************************************************)
HocrInit ==
  /\ WrapperInit
  /\ BatchIdle
  /\ JobIdle
  /\ PdfIdle
  /\ OpenAiIdle
  /\ hocrPc = "idle"
  /\ hocrXml \in HocrDocuments
  /\ wordPositions = <<>>
  /\ hocrText = <<>>

\* ocrWithPositions is called with an existing image and starts tesseract
\* (tesseract.ts:197-233)
OcrWithPositionsCalled ==
  /\ UNCHANGED <<wrapperVars, batchVars, jobVars, pdfVars, openAiVars>>
  /\ hocrPc = "idle"
  /\ hocrPc' = "tesseract"
  /\ UNCHANGED <<hocrXml, wordPositions, hocrText>>

\* execFileAsync settles; without the output file the call rejects
\* (tesseract.ts:233-241, 258-271)
TesseractExited(written) ==
  /\ UNCHANGED <<wrapperVars, batchVars, jobVars, pdfVars, openAiVars>>
  /\ hocrPc = "tesseract"
  /\ hocrPc' = IF written THEN "reading" ELSE "rejected"
  /\ UNCHANGED <<hocrXml, wordPositions, hocrText>>

\* readFile resolves with the document, which is parsed and joined
\* (tesseract.ts:243-249)
HocrRead ==
  /\ UNCHANGED <<wrapperVars, batchVars, jobVars, pdfVars, openAiVars>>
  /\ hocrPc = "reading"
  /\ wordPositions' = ParseHocr(hocrXml)
  /\ hocrText' = PlainText(wordPositions')
  /\ hocrPc' = "unlinking"
  /\ UNCHANGED hocrXml

\* unlink settles and the call returns {text, wordPositions}
\* (tesseract.ts:251-257)
HocrReturned ==
  /\ UNCHANGED <<wrapperVars, batchVars, jobVars, pdfVars, openAiVars>>
  /\ hocrPc = "unlinking"
  /\ hocrPc' = "returned"
  /\ UNCHANGED <<hocrXml, wordPositions, hocrText>>

HocrNext ==
  \/ OcrWithPositionsCalled
  \/ \E written \in BOOLEAN : TesseractExited(written)
  \/ HocrRead
  \/ HocrReturned

HocrSpec == HocrInit /\ [][HocrNext]_vars

HocrTypeOK ==
  /\ hocrPc \in {"idle", "tesseract", "reading", "unlinking", "rejected",
                 "returned"}
  /\ hocrXml \in HocrDocuments
  /\ Len(wordPositions) <= Len(hocrXml)

\* the document has been parsed
Parsed == hocrPc \in {"unlinking", "returned"}

\* C27 (as claimed): every word parseHocr returned has a box of positive
\* width and height, x1 > x0 and y1 > y0.
C27_PositiveBoxes ==
  Parsed =>
    \A k \in 1..Len(wordPositions) :
       /\ wordPositions[k].bbox.x1 > wordPositions[k].bbox.x0
       /\ wordPositions[k].bbox.y1 > wordPositions[k].bbox.y0

\* a span with a well-formed box: four integers after "bbox"
HasBox(span) == BboxMatch(span.title)

\* C28 (as claimed): the words returned are, in document order, exactly the
\* spans of the document that have a well-formed four-integer box, each with
\* its text and box, and the text returned is the words joined by single
\* spaces.
C28_SkipsExactlyBoxless ==
  Parsed =>
    LET kept == SelectSeq(hocrXml, HasBox)
    IN  /\ Len(wordPositions) = Len(kept)
        /\ \A k \in 1..Len(wordPositions) :
              /\ k <= Len(kept)
              /\ wordPositions[k] = WordPosition(kept[k])
        /\ hocrText = JoinSpace([k \in 1..Len(wordPositions) |->
                                   wordPositions[k].text])

(***************************************************************************)
(* SearchablePdfExporter.createPdf (searchablePdf.ts:52-92), under         *)
(* PdfSpec: the chunk of the for loop and the size of its screenshot are   *)
(* drawn by the initial state and by the step to the next chunk; the page  *)
(* kept is the one added last.                                             *)
(***************************************************************************)
PdfInit ==
  /\ WrapperInit
  /\ BatchIdle
  /\ JobIdle
  /\ HocrIdle
  /\ OpenAiIdle
  /\ pdfPc = "adding"
  /\ chunk \in Chunks
  /\ dimensions \in Dimensions
  /\ pdfPage = <<>>
  /\ pageCount = 0

\* addSearchablePage (searchablePdf.ts:96-139)
AddSearchablePage ==
  /\ UNCHANGED <<wrapperVars, batchVars, jobVars, hocrVars, openAiVars>>
  /\ pdfPc = "adding"
  /\ dimensions.width # 0 /\ dimensions.height # 0
  /\ pdfPage' = <<ImageLayer>> \o TextLayer(chunk, dimensions)
  /\ pageCount' = pageCount + 1
  /\ pdfPc' = "added"
  /\ UNCHANGED <<chunk, dimensions>>

\* addSearchablePage throws for a screenshot without dimensions and createPdf
\* rejects (searchablePdf.ts:103-105, 86-88)
AddSearchablePageThrows ==
  /\ UNCHANGED <<wrapperVars, batchVars, jobVars, hocrVars, openAiVars>>
  /\ pdfPc = "adding"
  /\ dimensions.width = 0 \/ dimensions.height = 0
  /\ pdfPc' = "rejected"
  /\ UNCHANGED <<chunk, dimensions, pdfPage, pageCount>>

\* the for loop goes on with the next chunk (searchablePdf.ts:77-79)
NextChunk(c, dims) ==
  /\ UNCHANGED <<wrapperVars, batchVars, jobVars, hocrVars, openAiVars>>
  /\ pdfPc = "added"
  /\ pageCount < MaxChunks
  /\ chunk' = c
  /\ dimensions' = dims
  /\ pdfPage' = <<>>
  /\ pdfPc' = "adding"
  /\ UNCHANGED pageCount

\* doc.end() after the last chunk (searchablePdf.ts:81-82)
DocEnd ==
  /\ UNCHANGED <<wrapperVars, batchVars, jobVars, hocrVars, openAiVars>>
  /\ pdfPc = "added"
  /\ pdfPc' = "ending"
  /\ UNCHANGED <<chunk, dimensions, pdfPage, pageCount>>

\* the stream emits finish or error (searchablePdf.ts:84-85)
StreamSettled(finished) ==
  /\ UNCHANGED <<wrapperVars, batchVars, jobVars, hocrVars, openAiVars>>
  /\ pdfPc = "ending"
  /\ pdfPc' = IF finished THEN "resolved" ELSE "rejected"
  /\ UNCHANGED <<chunk, dimensions, pdfPage, pageCount>>

PdfNext ==
  \/ AddSearchablePage
  \/ AddSearchablePageThrows
  \/ \E c \in Chunks, dims \in Dimensions : NextChunk(c, dims)
  \/ DocEnd
  \/ \E finished \in BOOLEAN : StreamSettled(finished)

PdfSpec == PdfInit /\ [][PdfNext]_vars

PdfTypeOK ==
  /\ pdfPc \in {"idle", "adding", "added", "ending", "resolved", "rejected"}
  /\ chunk \in Chunks
  /\ dimensions \in Dimensions
  /\ pageCount \in 0..MaxChunks
  /\ Len(pdfPage) <= 2

\* the operations of the page added last
PageOps == {pdfPage[k].op : k \in 1..Len(pdfPage)}

\* the page of the chunk has been added
PageAdded == pdfPc \in {"added", "ending", "resolved"}

\* C29: the page of a chunk whose text is not blank gets the positioned
\* layer if and only if the chunk has a non-empty word list, and the block
\* layer otherwise; no page gets both; the page of a chunk whose text is
\* empty or white space only gets no text layer, whatever its word list.
C29_PlacementMode ==
  PageAdded =>
    LET hasText == chunk.text.length > 0 /\ ~chunk.text.blank
        hasWords == chunk.wordPositions.defined
                      /\ chunk.wordPositions.words # <<>>
    IN  /\ pdfPage[1] = ImageLayer
        /\ ~({"positioned", "block"} \subseteq PageOps)
        /\ (hasText => ("positioned" \in PageOps <=> hasWords))
        /\ (hasText => ("block" \in PageOps <=> ~hasWords))
        /\ (~hasText => PageOps = {"image"})
        /\ \A k \in 1..Len(pdfPage) :
              pdfPage[k].op = "positioned" =>
                pdfPage[k].words = Len(chunk.wordPositions.words)

\* C29 witness: a chunk with text and words has got its page, with the
\* positioned layer.
C29_Witness ==
  /\ PageAdded
  /\ ~chunk.text.blank
  /\ chunk.wordPositions.words # <<>>
  /\ "positioned" \in PageOps

\* C30 (as claimed): the font size calculateFontSize gave the block layer of
\* a page keeps the estimated height within the page: ceil(textLength / 80)
\* * fontSize * 1.2 <= pageHeight - 2 * margin.
C30_HeightBudget ==
  PageAdded =>
    \A k \in 1..Len(pdfPage) :
       pdfPage[k].op = "block" =>
         ~RatLess(Rat(dimensions.height - 2 * margin, 1),
                  RatMul(RatMul(Rat(Ceil(chunk.text.length, 80), 1),
                                pdfPage[k].fontSize),
                         Rat(12, 10)))

\* C31: the text of every chunk captureAndOcrPages has pushed is a string,
\* never null, and in a dry run, where recognition is skipped, it is the
\* empty string; a recognition that yields the empty string gives a chunk
\* whose text is the empty string.
C31_TextNeverNull ==
  /\ [](/\ Len(chunkTexts) = Len(pages)
        /\ \A k \in 1..Len(chunkTexts) :
              /\ ~chunkTexts[k].null
              /\ (jobOptions.dryRun => chunkTexts[k].value = ""))
  /\ [][jobPc = "recognizing" /\ pages' # pages =>
          chunkTexts'[Len(chunkTexts')] \in RecognizedTexts]_vars

\* C31 witness: a dry run has pushed two chunks.
C31_Witness ==
  /\ jobOptions.dryRun
  /\ Len(chunkTexts) >= 2
  /\ chunkTexts[2] = Text("")

\* C32: every word of a positioned layer is placed at (x0, y0) of its box,
\* without line breaking, at the font size max(6, min(72, 0.85 * (y1 - y0))):
\* a size within [6, 72], which is 0.85 * the box height when that lies in
\* the range, and which is determined by the word's own box.
C32_WordFontSize ==
  PageAdded =>
    \A l \in 1..Len(pdfPage) :
       pdfPage[l].op = "positioned" =>
         /\ Len(pdfPage[l].placed) = Len(chunk.wordPositions.words)
         /\ \A k \in 1..Len(pdfPage[l].placed) :
              LET word == chunk.wordPositions.words[k]
                  put == pdfPage[l].placed[k]
                  scaled == Rat(85 * (word.bbox.y1 - word.bbox.y0), 100)
              IN  /\ put.text = word.text
                  /\ put.x = word.bbox.x0 /\ put.y = word.bbox.y0
                  /\ ~put.lineBreak
                  /\ ~RatLess(put.fontSize, <<6, 1>>)
                  /\ ~RatLess(<<72, 1>>, put.fontSize)
                  /\ (RatLess(scaled, <<6, 1>>) => put.fontSize = <<6, 1>>)
                  /\ (RatLess(<<72, 1>>, scaled) => put.fontSize = <<72, 1>>)
                  /\ (~RatLess(scaled, <<6, 1>>) /\ ~RatLess(<<72, 1>>, scaled)
                        => put.fontSize = scaled)

\* C32 witness: a positioned layer with a word at the upper limit, a word at
\* 0.85 * its height (17 for a height of 20) and a word at the lower limit.
C32_Witness ==
  /\ PageAdded
  /\ Len(pdfPage) = 2
  /\ pdfPage[2].op = "positioned"
  /\ Len(pdfPage[2].placed) = 3
  /\ pdfPage[2].placed[1].fontSize = <<72, 1>>
  /\ pdfPage[2].placed[2].fontSize = <<17, 1>>
  /\ pdfPage[2].placed[3].fontSize = <<6, 1>>

(***************************************************************************)
(* OpenAIProvider.ocr (openai.ts:60-113), under OpenAiSpec: one action per *)
(* await of the retry loop.                                                *)
(***************************************************************************)
OpenAiInit ==
  /\ WrapperInit
  /\ BatchIdle
  /\ JobIdle
  /\ HocrIdle
  /\ PdfIdle
  /\ openAiPc = "idle"
  /\ openAiConfig \in OpenAiConfigs
  /\ openAiAttempt = 0
  /\ openAiTemps = <<>>
  /\ openAiSlept = <<>>
  /\ openAiLastError = NoError
  /\ openAiResult = NoResponse

\* the head of an iteration: the loop test, and performOcr called at
\* currentTemp (openai.ts:77-82); past the loop, the final throw
\* (openai.ts:108-112)
Attempt(a) ==
  /\ openAiAttempt' = a
  /\ IF a < openAiConfig.maxRetries
     THEN /\ openAiTemps' =
               Append(openAiTemps, CurrentTemp(openAiConfig.temperature, a))
          /\ openAiPc' = "requesting"
     ELSE /\ openAiPc' = "failed"
          /\ UNCHANGED openAiTemps

\* the end of an iteration that did not return: the backoff wait unless the
\* attempt was the last one (openai.ts:100-106)
EndOfAttempt ==
  IF openAiAttempt < openAiConfig.maxRetries - 1
  THEN /\ openAiSlept' = Append(openAiSlept, Pow2(openAiAttempt) * 1000)
       /\ openAiPc' = "waiting"
       /\ UNCHANGED <<openAiAttempt, openAiTemps>>
  ELSE /\ Attempt(openAiAttempt + 1)
       /\ UNCHANGED openAiSlept

\* ocr is called (openai.ts:60-77)
OpenAiOcrCalled(found) ==
  /\ UNCHANGED <<wrapperVars, batchVars, jobVars, hocrVars, pdfVars>>
  /\ openAiPc = "idle"
  /\ IF found
     THEN /\ Attempt(0)
          /\ UNCHANGED openAiLastError
     ELSE /\ openAiPc' = "failed"
          /\ openAiLastError' = NotFoundError
          /\ UNCHANGED <<openAiAttempt, openAiTemps>>
  /\ UNCHANGED <<openAiConfig, openAiSlept, openAiResult>>

\* performOcr resolves: the text is returned unless it is empty or a refusal
\* (openai.ts:82-90)
OpenAiResponded(text) ==
  /\ UNCHANGED <<wrapperVars, batchVars, jobVars, hocrVars, pdfVars>>
  /\ openAiPc = "requesting"
  /\ IF text.content # "" /\ ~IsRefusal(text)
     THEN /\ openAiResult' = text
          /\ openAiPc' = "returned"
          /\ UNCHANGED <<openAiAttempt, openAiTemps, openAiSlept,
                         openAiLastError>>
     ELSE /\ openAiLastError' = RefusedError
          /\ EndOfAttempt
          /\ UNCHANGED openAiResult
  /\ UNCHANGED openAiConfig

\* performOcr rejects: a fatal error leaves the loop (openai.ts:91-98)
OpenAiRejected(error) ==
  /\ UNCHANGED <<wrapperVars, batchVars, jobVars, hocrVars, pdfVars>>
  /\ openAiPc = "requesting"
  /\ openAiLastError' = error
  /\ IF IsFatalError(error)
     THEN /\ openAiPc' = "failed"
          /\ UNCHANGED <<openAiAttempt, openAiTemps, openAiSlept>>
     ELSE EndOfAttempt
  /\ UNCHANGED <<openAiConfig, openAiResult>>

\* the backoff wait ends and the next iteration starts (openai.ts:102-104, 77)
OpenAiWoke ==
  /\ UNCHANGED <<wrapperVars, batchVars, jobVars, hocrVars, pdfVars>>
  /\ openAiPc = "waiting"
  /\ Attempt(openAiAttempt + 1)
  /\ UNCHANGED <<openAiConfig, openAiSlept, openAiLastError, openAiResult>>

OpenAiNext ==
  \/ \E found \in BOOLEAN : OpenAiOcrCalled(found)
  \/ \E text \in Responses : OpenAiResponded(text)
  \/ \E error \in ApiErrors : OpenAiRejected(error)
  \/ OpenAiWoke

OpenAiSpec == OpenAiInit /\ [][OpenAiNext]_vars

OpenAiTypeOK ==
  /\ openAiPc \in {"idle", "requesting", "waiting", "returned", "failed"}
  /\ openAiConfig \in OpenAiConfigs
  /\ openAiAttempt \in 0..MaxOpenAiRetries
  /\ Len(openAiTemps) <= MaxOpenAiRetries
  /\ openAiResult \in Responses \cup {NoResponse}
  /\ openAiLastError \in ApiErrors \cup {NoError, RefusedError, NotFoundError}

\* C33: the text returned is never empty and never matches a refusal pattern;
\* the k-th attempt is made at temperature base + 0.2 * (k - 1), higher than
\* that of the attempt before; there are at most maxRetries attempts, and a
\* call whose last attempt was refused fails after exactly maxRetries.
C33_RefusalRetriedHotter ==
  /\ (openAiPc = "returned" =>
        openAiResult.content # "" /\ openAiResult.matches = {})
  /\ (openAiPc # "returned" => openAiResult = NoResponse)
  /\ Len(openAiTemps) <= openAiConfig.maxRetries
  /\ \A k \in 1..Len(openAiTemps) :
        /\ openAiTemps[k] = openAiConfig.temperature + 2 * (k - 1)
        /\ (k > 1 => openAiTemps[k] > openAiTemps[k - 1])
  /\ (openAiPc = "failed" /\ openAiLastError = RefusedError =>
        Len(openAiTemps) = openAiConfig.maxRetries)

\* C33 witness: three attempts were refused, at 0.5, 0.7 and 0.9, and the
\* call has failed.
C33_Witness ==
  /\ openAiPc = "failed"
  /\ openAiLastError = RefusedError
  /\ openAiTemps = <<5, 7, 9>>

\* C34: the attempt that catches an error whose message mentions api key,
\* unauthorized, invalid or quota ends the call: it fails in that step,
\* without a backoff wait and without another attempt.
C34_FatalStopsAtOnce ==
  [][/\ openAiPc = "requesting"
     /\ openAiLastError' \in ApiErrors
     /\ openAiLastError'.mentions # {}
     /\ openAiPc' # "returned"
     => /\ openAiPc' = "failed"
        /\ openAiSlept' = openAiSlept
        /\ openAiTemps' = openAiTemps]_vars

\* C34 witness: the first of three attempts met a fatal error and the call
\* has failed, after one attempt and no wait.
C34_Witness ==
  /\ openAiPc = "failed"
  /\ openAiConfig.maxRetries = 3
  /\ openAiLastError.mentions # {}
  /\ Len(openAiTemps) = 1
  /\ openAiSlept = <<>>

====
